---- MODULE Spec2Model ----
(***************************************************************************)
(* Playback engine and result sequencer of like-a-crime (src/src/aux.rs),  *)
(* its streaming player and analyzer (stream.rs, analyzer.rs) and the pure *)
(* analysis functions (window.rs, fft.rs, notes.rs).                       *)
(*                                                                         *)
(* Samples are modelled by their source position (1, 2, 3, ...), so every  *)
(* buffered sample is distinct and non-zero.  An output sample is kept as  *)
(* an exact rational with denominator fade_duration_samples: the value     *)
(* out[i] stands for out[i] / D, so a sample s played at multiplier 1.0 is *)
(* s * D, a faded one is s * (D - fade_count) and silence is 0.            *)
(* Durations are integers in nanoseconds, as in std::time::Duration.       *)
(***************************************************************************)
EXTENDS Integers, Sequences, FiniteSets, TLC

VARIABLES
    sample_rate,            \* AudioOutput.sample_rate
    is_paused,              \* AudioOutput.is_paused
    fade_samples,           \* AudioOutput.fade_samples
    buffer,                 \* AudioOutput.buffer (VecDeque<f32>)
    analysis_results,       \* AudioOutput.analysis_results (BinaryHeap data vector)
    current_playback_time,  \* AudioOutput.current_playback_time (ns)
    vis_current_time,       \* VisualizerData.current_time
    amplitude_samples,      \* VisualizerData.amplitude_samples
    note_history,           \* VisualizerData.note_history
    current_note,           \* VisualizerData.current_note (0 stands for None)
    cb_pc,                  \* position of the hardware callback
    cb_paused,              \* the callback's local `paused`
    out,                    \* the callback's `data` slice after the last pull
    received,               \* history: samples received on the playback queue
    played,                 \* history: samples popped from the ring buffer
    results_sent,           \* history: timestamps of the results received, by note id
    released,               \* history: results released by the last drain
    last_pull,              \* history: what the last completed pull did
    fade_iters,             \* history: fade-branch iterations since the last pause()
    fade_clean,             \* history: the last pause() found the counter at 0 and no fade
                            \* iteration since then found the buffer empty
    consumed,               \* history: samples consumed by the puller
    resume_fade,            \* history: the counter found by the last resume, -1 once paused again
    drained_at,             \* history: clock of the last SeqDrain, -1 once a result is pushed
    redrained,              \* history: the last SeqDrain repeated the clock of the one before
    sample_buffer,          \* StreamingPlayer.sample_buffer (VecDeque<f32>)
    analysis_chunk,         \* decode_audio_stream: the local `analysis_chunk`
    analysis_tx,            \* chunks in flight on the analysis channel
    emitted,                \* history: chunks handed to analysis_sender.send
    decoded,                \* history: number of samples decoded so far
    eof,                    \* decode_audio_stream has left its loop
    analyzer_time,          \* AudioAnalyzer.current_time (ns)
    analyzer_pc,            \* the analyzer thread: "run" or "panicked"
    result_tx,              \* results sent by the analyzer, with the chunk they belong to
    player_time,            \* StreamingPlayer.current_time (ns)
    pulled,                 \* history: per pulled sample, the clock before and after its callback
    analyzed,               \* history: first sample of each chunk the analyzer received
    underrun,               \* history: a pull found the sample buffer empty
    skipped,                \* the chunks whose send failed, one "skipping chunk" line each
    window_call,            \* a call of window_audio_samples: arguments and outcome
    fft_call,               \* a call of analyze_frequency_bands: arguments and outcome
    note_call,              \* a call of frequency_to_note: argument and outcome
    label_call,             \* the single-note label of one MIDI value: argument and outcome
    prog,                   \* per thread, the lock operations left in its current run
    held,                   \* per mutex, the thread that holds it ("none" when free)
    read_position,          \* the streamer's read position, in samples
    seek_mark,              \* history: samples received and played when the last seek was made
    should_quit,            \* the shared flag should_quit (Arc<Mutex<bool>>)
    rendered,               \* history: iterations of the visualizer's render loop
    stop_mark,              \* history: the loops' iteration counts when should_quit was set
    stdin_events,           \* run_synthesizer: key events typed and not yet read
    typed,                  \* history: number of keys typed
    input_pc,               \* the input thread: "read", "send", "check" or "done"
    input_event,            \* the input thread's local `msg`
    event_tx,               \* InputEvents in flight from the input thread to the main loop
    main_pc,                \* run_synthesizer's own thread: "poll", "quit", "join" or "returned"
    synth_note,             \* run_synthesizer: the local `current_note` ("none" for None)
    quit_read               \* history: the input thread has read a 'q' key event

vars == << sample_rate, is_paused, fade_samples, buffer, analysis_results,
           current_playback_time, vis_current_time, amplitude_samples,
           note_history, current_note, cb_pc, cb_paused, out, received, played,
           results_sent, released, last_pull, fade_iters, fade_clean,
           consumed, resume_fade, drained_at, redrained, sample_buffer,
           analysis_chunk, analysis_tx, emitted, decoded, eof, analyzer_time,
           analyzer_pc, result_tx, player_time, pulled, analyzed, underrun,
           skipped, window_call, fft_call, note_call, label_call, prog, held,
           read_position, seek_mark, should_quit, rendered, stop_mark,
           stdin_events, typed, input_pc, input_event, event_tx, main_pc,
           synth_note, quit_read >>

stream_vars == << sample_buffer, analysis_chunk, analysis_tx, emitted, decoded,
                  eof, analyzer_time, analyzer_pc, result_tx, player_time,
                  pulled, analyzed, underrun, skipped >>

dsp_vars == << window_call, fft_call, note_call >>

format_vars == << label_call >>

sync_vars == << prog, held >>

seek_vars == << read_position, seek_mark >>

quit_vars == << should_quit, rendered, stop_mark >>

synth_vars == << stdin_events, typed, input_pc, input_event, event_tx, main_pc,
                synth_note, quit_read >>

pipeline_vars == << stream_vars, dsp_vars, format_vars, sync_vars, seek_vars,
                   quit_vars, synth_vars >>

(***************************************************************************)
(* Bounds of the model.                                                    *)
(***************************************************************************)
MaxSamples == 3      \* samples the playback queue delivers in a run
MaxChunk == 2        \* longest chunk received at once
MaxPull == 2         \* longest hardware pull (data.len())
MaxTicks == 3        \* the clock is allowed to reach this many sample periods
MaxResults == 1      \* analysis results received in a run of the engine
MaxTs == 3           \* largest result timestamp, in sample periods
SeqMaxResults == 3   \* results pushed in a run of the sequencer alone
LiveMaxResults == 2  \* results pushed in a run of the sequencer with fair drains
LiveMaxTs == 2       \* largest timestamp and clock of such a run
SeqMaxTs == 5        \* largest timestamp and clock of the sequencer alone
HistMaxResults == 21 \* results pushed in a run of the note-history specification
MaxPending == 2      \* results waiting in the heap at once in such a run
MaxRendered == 2     \* iterations of the render loop in a run
MaxKeys == 3         \* keys typed in a run of the synthesizer
FillMaxSamples == 4  \* samples delivered in a run of the producer against the puller
ANALYSIS_CHUNK_SIZE == 2  \* samples that trigger an analysis chunk (8192 in
                          \* stream.rs:101), scaled to the samples a run decodes
MaxDecoded == 5      \* samples decoded in a run of the streaming player
MaxPacket == 2       \* most samples decoded from one packet
MaxFrames == 2       \* most stereo frames of one output callback (data.len() / 2)
MaxMagnitude == 2    \* largest magnitude of a spectrum bin
MaxPeaks == 3        \* largest k_per_band (the analyzer asks for 3)
MaxFreqs == 4        \* most frequencies handed to frequency_to_note
MaxWindowLen == 8    \* longest sample slice handed to window_audio_samples
MidiSteps == 200     \* resolution of a MIDI value: steps per semitone
MaxMidi == 70        \* largest MIDI value handed to the single-note label
MaxWindow == 5       \* largest window_size handed to window_audio_samples
HighWaterMark == 1   \* the filler's high-water mark (176400 in aux.rs:212), scaled
                     \* to the samples a run delivers
AmplitudeCap == 2    \* capacity of the amplitude window (2048 in aux.rs:164), scaled
                     \* to the samples a run outputs

SampleRates == {800, 1000}

NanosPerSec == 1000000000

(***************************************************************************)
(* Program constants.                                                      *)
(***************************************************************************)
HistoryCap == 20

\* Duration::from_secs_f32(1.0 / sample_rate): the nanoseconds nearest to the
\* quotient (from_secs_f32 rounds to nearest).
SamplePeriod(sr) == (NanosPerSec + (sr \div 2)) \div sr

\* (sample_rate * 0.005) as usize
fade_duration_samples(sr) == (sr * 5) \div 1000

D == fade_duration_samples(sample_rate)
Tick == SamplePeriod(sample_rate)

(***************************************************************************)
(* AnalysisResult and its ordering; BinaryHeap<Reverse<AnalysisResult>>.   *)
(* The heap is its data vector; positions are 0-based as in the code and   *)
(* d[p + 1] is the element at position p.                                  *)
(***************************************************************************)
AnalysisResult(ts, note) == [timestamp |-> ts, note |-> note]

\* impl Ord for AnalysisResult: a <= b
cmp_le(a, b) == a.timestamp <= b.timestamp

\* the heap without Reverse: a max-heap
RevLeForgotten(a, b) == cmp_le(a, b)

\* Reverse(a) <= Reverse(b)
RevLe(a, b) == cmp_le(b, a)

Swap(d, i, j) == [d EXCEPT ![i] = d[j], ![j] = d[i]]

\* a sift that leaves the element where it is
sift_up_skipped(d, start, pos) == d

RECURSIVE sift_up(_, _, _)
sift_up(d, start, pos) ==
    IF pos > start
    THEN LET parent == (pos - 1) \div 2
         IN  IF RevLe(d[pos + 1], d[parent + 1])
             THEN d
             ELSE sift_up(Swap(d, pos + 1, parent + 1), start, parent)
    ELSE d

\* the hole's walk to the bottom: << data, final position >>
RECURSIVE sift_down_walk(_, _)
sift_down_walk(d, pos) ==
    LET end == Len(d)
        child == 2 * pos + 1
        limit == IF end >= 2 THEN end - 2 ELSE 0
    IN  IF child <= limit
        THEN LET c == IF RevLe(d[child + 1], d[child + 2]) THEN child + 1 ELSE child
             IN  sift_down_walk(Swap(d, pos + 1, c + 1), c)
        ELSE IF child = end - 1
             THEN << Swap(d, pos + 1, child + 1), child >>
             ELSE << d, pos >>

sift_down_to_bottom(d, pos) ==
    LET w == sift_down_walk(d, pos)
    IN  sift_up(w[1], pos, w[2])

\* a push that overwrites a queued result of the same timestamp
HeapPushReplacing(d, r) ==
    IF \E i \in 1..Len(d) : d[i].timestamp = r.timestamp
    THEN [d EXCEPT ![CHOOSE i \in 1..Len(d) : d[i].timestamp = r.timestamp] = r]
    ELSE sift_up(Append(d, r), 0, Len(d))

\* results.push(Reverse(result))
HeapPush(d, r) == sift_up(Append(d, r), 0, Len(d))

\* results.peek()
HeapPeek(d) == d[1]

\* results.pop().unwrap(): [item, data]
HeapPop(d) ==
    LET last == d[Len(d)]
        rest == SubSeq(d, 1, Len(d) - 1)
    IN  IF rest = << >>
        THEN [item |-> last, data |-> rest]
        ELSE [item |-> rest[1],
              data |-> sift_down_to_bottom([rest EXCEPT ![1] = last], 0)]

(***************************************************************************)
(* check_and_display_analysis: the sequencer drain.                        *)
(***************************************************************************)
\* the comparison turned round
DrainReadyReversed(r, t) == r.timestamp >= t

\* front_result.timestamp <= current_time
DrainReady(r, t) == r.timestamp <= t

\* the history trimmed at the wrong end: pop_back() for pop_front()
PushHistoryDropNewest(hist, r) ==
    LET h == Append(hist, << r.timestamp, r.note >>)
    IN  IF Len(h) > HistoryCap THEN SubSeq(h, 1, HistoryCap) ELSE h

\* note_history.push_back(..); if len > 20 { pop_front() }
PushHistory(hist, r) ==
    LET h == Append(hist, << r.timestamp, r.note >>)
    IN  IF Len(h) > HistoryCap THEN Tail(h) ELSE h

\* the `if` of the loop body, without the loop
DrainOnce(heap, t, hist, note, rel) ==
    IF heap # << >> /\ DrainReady(HeapPeek(heap), t)
    THEN LET p == HeapPop(heap)
         IN  [heap |-> p.data, hist |-> PushHistory(hist, p.item),
              note |-> p.item.note, rel |-> Append(rel, p.item)]
    ELSE [heap |-> heap, hist |-> hist, note |-> note, rel |-> rel]

\* the loop with current_note assigned by the first result released only
RECURSIVE DrainLoopFirstWins(_, _, _, _, _)
DrainLoopFirstWins(heap, t, hist, note, rel) ==
    IF heap # << >> /\ DrainReady(HeapPeek(heap), t)
    THEN LET p == HeapPop(heap)
         IN  DrainLoopFirstWins(p.data, t, PushHistory(hist, p.item),
                                IF rel = << >> THEN p.item.note ELSE note,
                                Append(rel, p.item))
    ELSE [heap |-> heap, hist |-> hist, note |-> note, rel |-> rel]

\* while let Some(Reverse(front_result)) = results.peek() { .. }
RECURSIVE DrainLoop(_, _, _, _, _)
DrainLoop(heap, t, hist, note, rel) ==
    IF heap # << >> /\ DrainReady(HeapPeek(heap), t)
    THEN LET p == HeapPop(heap)
         IN  DrainLoop(p.data, t, PushHistory(hist, p.item), p.item.note,
                       Append(rel, p.item))
    ELSE [heap |-> heap, hist |-> hist, note |-> note, rel |-> rel]

check_and_display_analysis(heap, t, hist, note) ==
    DrainLoop(heap, t, hist, note, << >>)

(***************************************************************************)
(* The hardware callback's two loops.                                      *)
(***************************************************************************)
\* 1.0 - (*fade_count as f32 / fade_duration_samples as f32), over d
fade_multiplier(fc, d) == d - fc

\* *fade_count += 2
fade_advance(fc) == fc + 2

\* a fade-in that carries on from the counter
play_multiplier_fading(fc, d) == IF fc < d THEN fade_multiplier(fc, d) ELSE d

\* *sample = audio_sample, over d
play_multiplier(fc, d) == d

\* the paused branch with the silent arm draining the buffer
RECURSIVE paused_loop_discard(_, _, _, _, _, _, _)
paused_loop_discard(n, fc, buf, d, o, pop, it) ==
    IF n = 0
    THEN [fade |-> fc, buf |-> buf, out |-> o, popped |-> pop, iters |-> it]
    ELSE LET audio_sample == IF buf = << >> THEN 0 ELSE Head(buf)
             rest == IF buf = << >> THEN buf ELSE Tail(buf)
             got == IF buf = << >> THEN pop ELSE Append(pop, Head(buf))
         IN  IF fc < d
             THEN paused_loop_discard(n - 1, fade_advance(fc), rest, d,
                      Append(o, audio_sample * fade_multiplier(fc, d)), got, it + 1)
             ELSE paused_loop_discard(n - 1, fc, rest, d, Append(o, 0), got, it)

\* the paused branch: for sample in data.iter_mut() { .. }
RECURSIVE paused_loop(_, _, _, _, _, _, _)
paused_loop(n, fc, buf, d, o, pop, it) ==
    IF n = 0
    THEN [fade |-> fc, buf |-> buf, out |-> o, popped |-> pop, iters |-> it]
    ELSE IF fc < d
         THEN LET audio_sample == IF buf = << >> THEN 0 ELSE Head(buf)
                  rest == IF buf = << >> THEN buf ELSE Tail(buf)
                  got == IF buf = << >> THEN pop ELSE Append(pop, Head(buf))
              IN  paused_loop(n - 1, fade_advance(fc), rest, d,
                              Append(o, audio_sample * fade_multiplier(fc, d)),
                              got, it + 1)
         ELSE paused_loop(n - 1, fc, buf, d, Append(o, 0), pop, it)

\* *current_timestamp += Duration::from_secs_f32(1.0 / sample_rate)
advance_clock(t, sr) == t + SamplePeriod(sr)

\* the playing path with the clock advanced for popped samples only
RECURSIVE play_loop_popped_clock(_, _, _, _, _, _, _, _)
play_loop_popped_clock(n, fc, buf, t, sr, o, frames, pop) ==
    IF n = 0
    THEN [buf |-> buf, clock |-> t, out |-> o, frames |-> frames, popped |-> pop]
    ELSE IF buf = << >>
         THEN play_loop_popped_clock(n - 1, fc, buf, t, sr, Append(o, 0),
                                     Append(frames, 0), pop)
         ELSE play_loop_popped_clock(n - 1, fc, Tail(buf), advance_clock(t, sr), sr,
                  Append(o, Head(buf) * play_multiplier(fc, fade_duration_samples(sr))),
                  Append(frames, Head(buf)), Append(pop, Head(buf)))

\* the playing path: for sample in data.iter_mut() { .. }
RECURSIVE play_loop(_, _, _, _, _, _, _, _)
play_loop(n, fc, buf, t, sr, o, frames, pop) ==
    IF n = 0
    THEN [buf |-> buf, clock |-> t, out |-> o, frames |-> frames, popped |-> pop]
    ELSE LET audio_sample == IF buf = << >> THEN 0 ELSE Head(buf)
             rest == IF buf = << >> THEN buf ELSE Tail(buf)
             got == IF buf = << >> THEN pop ELSE Append(pop, Head(buf))
         IN  play_loop(n - 1, fc, rest, advance_clock(t, sr), sr,
                 Append(o, audio_sample * play_multiplier(fc, fade_duration_samples(sr))),
                 Append(frames, audio_sample), got)

\* the window trimmed at the wrong end: the oldest samples kept
extend_amplitude_keep_oldest(amp, frames) ==
    LET a == amp \o frames
    IN  IF Len(a) > AmplitudeCap THEN SubSeq(a, 1, AmplitudeCap) ELSE a

\* amplitude_samples.extend(frame_samples); drain(0..vis_len - 2048)
extend_amplitude(amp, frames) ==
    LET a == amp \o frames
    IN  IF Len(a) > AmplitudeCap
        THEN SubSeq(a, Len(a) - AmplitudeCap + 1, Len(a))
        ELSE a

\* the chunk pushed at the front of the deque
push_chunk_front(buf, chunk) == chunk \o buf

\* a filler that refuses a chunk above the high-water mark
push_chunk_bounded(buf, chunk) ==
    IF Len(buf) > HighWaterMark THEN buf ELSE buf \o chunk

\* for sample in chunk { buf.push_back(sample) }
push_chunk(buf, chunk) == buf \o chunk

(***************************************************************************)
(* window.rs.  A sample is a non-zero integer.  A Hann coefficient is kept *)
(* as its index i (it stands for 0.5 * (1 - cos(2*pi*i / (W - 1)))), and a *)
(* value of a frame as a record: Times(x, i) is x * hann_coeffs[i] and     *)
(* Literal(v) is the number v itself.  A call ends with `panicked` set     *)
(* where the Rust code panics (step_by(0), slice end out of range).        *)
(***************************************************************************)
SampleValues == {1, 2}

Literal(v) == [x |-> v, coeff |-> -1]
Times(x, i) == [x |-> x, coeff |-> i]

hann_window(window_size) == [i \in 1..window_size |-> i - 1]

\* a frame whose last slot keeps the input sample
window_frame_passthrough(chunk, window_size, hann_coeffs) ==
    [i \in 1..window_size |->
        IF i <= window_size - 1 THEN Times(chunk[i], hann_coeffs[i])
                                ELSE Literal(chunk[i])]

\* vec![0.0; window_size], then slots 0 .. window_size - 2 are assigned
window_frame(chunk, window_size, hann_coeffs) ==
    [i \in 1..window_size |->
        IF i <= window_size - 1 THEN Times(chunk[i], hann_coeffs[i])
                                ELSE Literal(0)]

\* for pos in (0..window_size).step_by(hop_size)
RECURSIVE window_loop(_, _, _, _, _, _)
window_loop(samples, window_size, hop_size, hann_coeffs, pos, frames) ==
    IF pos >= window_size
    THEN [panicked |-> FALSE, frames |-> frames]
    ELSE IF pos + window_size > Len(samples)
         THEN [panicked |-> TRUE, frames |-> frames]
         ELSE window_loop(samples, window_size, hop_size, hann_coeffs,
                          pos + hop_size,
                          Append(frames,
                                 window_frame(SubSeq(samples, pos + 1, pos + window_size),
                                              window_size, hann_coeffs)))

window_audio_samples(samples, window_size) ==
    LET hop_size == window_size \div 4
    IN  IF hop_size = 0
        THEN [panicked |-> TRUE, frames |-> << >>]
        ELSE window_loop(samples, window_size, hop_size,
                         hann_window(window_size), 0, << >>)

(***************************************************************************)
(* fft.rs: analyze_frequency_bands.  A spectrum is the sequence of the     *)
(* magnitudes (norm) of its bins, bin 0 first.  A frequency is the exact   *)
(* rational bin * sample_rate / window_size, kept as [num, den].  A        *)
(* weighted magnitude is kept as its square over the common denominator    *)
(* 400 * window_size: magnitude^2 * weight^2, with weight^2 = f / 400      *)
(* capped at 4 for f > 400 and 1 otherwise; squaring keeps the order of    *)
(* non-negative numbers.                                                   *)
(***************************************************************************)
bands == << <<50, 250>>, <<250, 800>>, <<800, 2000>>, <<2000, 6000>> >>

\* ((edge * window_size as f32) / sample_rate) as usize
band_bin(edge, sample_rate_, window_size) == (edge * window_size) \div sample_rate_

frequency(bin, sample_rate_, window_size) ==
    [num |-> bin * sample_rate_, den |-> window_size]

weight_sq(bin, sample_rate_, window_size) ==
    IF bin * sample_rate_ > 400 * window_size
    THEN (IF bin * sample_rate_ < 1600 * window_size
          THEN bin * sample_rate_ ELSE 1600 * window_size)
    ELSE 400 * window_size

weighted_magnitude(magnitude, bin, sample_rate_, window_size) ==
    magnitude * magnitude * weight_sq(bin, sample_rate_, window_size)

\* spectrum.iter().enumerate().take(high_bin.min(spectrum.len())).skip(low_bin)
RECURSIVE candidate_freqs(_, _, _, _, _)
candidate_freqs(spectrum, sample_rate_, window_size, bin, end) ==
    IF bin >= end THEN << >>
    ELSE << [weighted |-> weighted_magnitude(spectrum[bin + 1], bin,
                                             sample_rate_, window_size),
             frequency |-> frequency(bin, sample_rate_, window_size)] >>
         \o candidate_freqs(spectrum, sample_rate_, window_size, bin + 1, end)

\* a comparator that sorts ascending
stays_ahead_ascending(a, b) == a.weighted <= b.weighted

\* sort_by(|a, b| b.0.partial_cmp(&a.0)): a stays ahead of a later b unless b is larger
stays_ahead(a, b) == a.weighted >= b.weighted

\* the place of c in a sorted list: behind every entry that stays ahead of it
RECURSIVE insert_sorted(_, _)
insert_sorted(sorted, c) ==
    IF sorted = << >> THEN << c >>
    ELSE IF stays_ahead(Head(sorted), c)
         THEN << Head(sorted) >> \o insert_sorted(Tail(sorted), c)
         ELSE << c >> \o sorted

\* the stable sort, entry by entry in the order of the bins
RECURSIVE sort_by(_, _)
sort_by(cands, sorted) ==
    IF cands = << >> THEN sorted
    ELSE sort_by(Tail(cands), insert_sorted(sorted, Head(cands)))

\* into_iter().take(k_per_band).map(|(_, freq)| freq)
top_k_freqs(sorted, k_per_band) ==
    [i \in 1..(IF k_per_band < Len(sorted) THEN k_per_band ELSE Len(sorted))
        |-> sorted[i].frequency]

band_candidates(spectrum, sample_rate_, window_size, i) ==
    LET low_bin == band_bin(bands[i][1], sample_rate_, window_size)
        high_bin == band_bin(bands[i][2], sample_rate_, window_size)
        end == IF high_bin < Len(spectrum) THEN high_bin ELSE Len(spectrum)
    IN  candidate_freqs(spectrum, sample_rate_, window_size, low_bin, end)

analyze_frequency_bands(spectrum, sample_rate_, window_size, k_per_band) ==
    [i \in 1..Len(bands) |->
        top_k_freqs(sort_by(band_candidates(spectrum, sample_rate_, window_size, i),
                            << >>),
                    k_per_band)]

(***************************************************************************)
(* notes.rs: frequency_to_note.  A frequency is a whole number of Hz.  The *)
(* rounded MIDI number round(69 + 12 * log2(f / 440)) is read from the     *)
(* semitone boundaries 440 * 2^((m - 69.5) / 12) of the octave m = 60..71, *)
(* in hundredths of a Hz, and from the fact that doubling a frequency adds *)
(* 12.  i32 arithmetic is Rust's: `/` and `%` truncate toward zero and a   *)
(* float that is -inf converts to i32::MIN.  A label is a record: "N/A",   *)
(* a chord and its name, or a note with its name and octave (the cents     *)
(* suffix of a note label is left out).                                    *)
(***************************************************************************)
note_names == << "C", "C#", "D", "D#", "E", "F", "F#", "G", "G#", "A", "A#", "B" >>

CHORD_DATABASE ==
    [ch \in {"C", "C#", "D", "D#", "E", "F", "F#", "G", "G#", "A", "A#", "B",
             "Cm", "C#m", "Dm", "D#m", "Em", "Fm", "F#m", "Gm", "G#m", "Am",
             "A#m", "Bm"} |->
        CASE ch = "C" -> {"C", "E", "G"}
          [] ch = "C#" -> {"C#", "F", "G#"}
          [] ch = "D" -> {"D", "F#", "A"}
          [] ch = "D#" -> {"D#", "G", "A#"}
          [] ch = "E" -> {"E", "G#", "B"}
          [] ch = "F" -> {"F", "A", "C"}
          [] ch = "F#" -> {"F#", "A#", "C#"}
          [] ch = "G" -> {"G", "B", "D"}
          [] ch = "G#" -> {"G#", "C", "D#"}
          [] ch = "A" -> {"A", "C#", "E"}
          [] ch = "A#" -> {"A#", "D", "F"}
          [] ch = "B" -> {"B", "D#", "F#"}
          [] ch = "Cm" -> {"C", "D#", "G"}
          [] ch = "C#m" -> {"C#", "E", "G#"}
          [] ch = "Dm" -> {"D", "F", "A"}
          [] ch = "D#m" -> {"D#", "F#", "A#"}
          [] ch = "Em" -> {"E", "G", "B"}
          [] ch = "Fm" -> {"F", "G#", "C"}
          [] ch = "F#m" -> {"F#", "A", "C#"}
          [] ch = "Gm" -> {"G", "A#", "D"}
          [] ch = "G#m" -> {"G#", "B", "D#"}
          [] ch = "Am" -> {"A", "C", "E"}
          [] ch = "A#m" -> {"A#", "C#", "F"}
          [] ch = "Bm" -> {"B", "D", "F#"}]

NoLabel == [kind |-> "none", name |-> "", octave |-> 0]
NotAvailable == [kind |-> "N/A", name |-> "", octave |-> 0]
ChordLabel(chord_name) == [kind |-> "chord", name |-> chord_name, octave |-> 0]
NoteLabel(name, octave) == [kind |-> "note", name |-> name, octave |-> octave]

\* lowest frequency, in Hz / 100, that rounds to MIDI 60, 61, .., 72
semitone_floor == << 25418, 26929, 28530, 30227, 32024, 33929, 35946, 38084,
                     40348, 42747, 45289, 47982, 50836 >>

i32_MIN == -2147483647 - 1

\* round(69 + 12 * log2(x / y / 100 / 440)) for x > 0
RECURSIVE midi_round(_, _)
midi_round(x, y) ==
    IF x < semitone_floor[1] * y THEN midi_round(2 * x, y) - 12
    ELSE IF x >= semitone_floor[13] * y THEN midi_round(x, 2 * y) + 12
    ELSE 59 + CHOOSE i \in 1..12 : /\ semitone_floor[i] * y <= x
                                   /\ x < semitone_floor[i + 1] * y

\* (69.0 + 12.0 * (frequency / 440.0).log2()).round() as i32
rounded_midi(frequency_) ==
    IF frequency_ = 0 THEN i32_MIN ELSE midi_round(100 * frequency_, 1)

\* i32 `%` and `/`
i32_rem(a, b) ==
    IF a >= 0 THEN a % b
    ELSE IF a % b = 0 THEN 0 ELSE (a % b) - b

i32_div(a, b) == (a - i32_rem(a, b)) \div b

\* the loop over the frequencies: the names of those at or above 20 Hz
RECURSIVE detect_notes(_)
detect_notes(frequencies) ==
    IF frequencies = << >> THEN << >>
    ELSE IF Head(frequencies) < 20 THEN detect_notes(Tail(frequencies))
    ELSE << note_names[i32_rem(rounded_midi(Head(frequencies)), 12) + 1] >>
         \o detect_notes(Tail(frequencies))

\* Vec::dedup: consecutive repeats removed
RECURSIVE dedup(_)
dedup(notes) ==
    IF Len(notes) <= 1 THEN notes
    ELSE IF notes[1] = notes[2] THEN dedup(Tail(notes))
    ELSE << notes[1] >> \o dedup(Tail(notes))

\* `any` for `all`: a chord matches as soon as one of its notes is detected
chord_match_any(chord_name, detected_notes) ==
    \E chord_note \in CHORD_DATABASE[chord_name] :
        \E i \in 1..Len(detected_notes) : detected_notes[i] = chord_note

\* chord_notes.iter().all(|&chord_note| detected_notes.iter().any(..))
chord_match(chord_name, detected_notes) ==
    \A chord_note \in CHORD_DATABASE[chord_name] :
        \E i \in 1..Len(detected_notes) : detected_notes[i] = chord_note

\* the label of frequencies[0]; the index into note_names panics when negative
dominant_label(frequency_) ==
    LET midi == rounded_midi(frequency_)
        octave == i32_div(midi, 12) - 1
        note_index == i32_rem(midi, 12)
    IN  IF note_index < 0
        THEN [panicked |-> TRUE, label |-> NoLabel]
        ELSE [panicked |-> FALSE,
              label |-> NoteLabel(note_names[note_index + 1], octave)]

\* the chords the iteration over CHORD_DATABASE can return
matching_chords(detected_notes) ==
    {ch \in DOMAIN CHORD_DATABASE : chord_match(ch, detected_notes)}

\* `first` is the matching chord the HashMap iteration meets first; the order of
\* a HashMap is not fixed, so `first` is any of them
frequency_to_note(frequencies, first) ==
    IF frequencies = << >> THEN [panicked |-> FALSE, label |-> NotAvailable]
    ELSE LET detected_notes == dedup(detect_notes(frequencies))
         IN  IF detected_notes = << >>
             THEN [panicked |-> FALSE, label |-> NotAvailable]
             ELSE IF matching_chords(detected_notes) # {}
                  THEN [panicked |-> FALSE, label |-> ChordLabel(first)]
                  ELSE dominant_label(frequencies[1])

(***************************************************************************)
(* The single-note label (notes.rs:79-91) as a function of midi_note.  A   *)
(* MIDI value is carried in steps of 1 / MidiSteps of a semitone, so       *)
(* midi_note = 69 * MidiSteps is 440 Hz: 440.0 / 440.0 is 1.0 and its log2 *)
(* is 0.0 exactly.                                                         *)
(***************************************************************************)
\* f32::round of num / den (den > 0): nearest integer, halves away from zero
round_half_away(num, den) ==
    IF num >= 0 THEN (2 * num + den) \div (2 * den)
    ELSE 0 - ((den - 2 * num) \div (2 * den))

\* "{}": the sign is printed for negative numbers only
format_unsigned(v) ==
    [sign |-> IF v < 0 THEN "-" ELSE "", digits |-> IF v < 0 THEN 0 - v ELSE v]

\* "{:+}": the sign is always printed
format_signed(v) ==
    [sign |-> IF v < 0 THEN "-" ELSE "+", digits |-> IF v < 0 THEN 0 - v ELSE v]

SingleNoteLabel(name, octave, cents) ==
    [kind |-> "note", name |-> name, octave |-> octave, cents |-> cents]

single_note_label(midi_note) ==
    LET rounded == round_half_away(midi_note, MidiSteps)
        octave == i32_div(rounded, 12) - 1
        note_index == i32_rem(rounded, 12)
        cents_off == round_half_away(100 * (midi_note - rounded * MidiSteps),
                                     MidiSteps)
    IN  IF note_index < 0
        THEN [panicked |-> TRUE, rounded_midi |-> rounded,
              label |-> SingleNoteLabel("", 0, format_signed(0))]
        ELSE [panicked |-> FALSE, rounded_midi |-> rounded,
              label |-> SingleNoteLabel(note_names[note_index + 1], octave,
                                        format_signed(cents_off))]

(***************************************************************************)
(* The mutexes of the engine and the order in which each thread takes and  *)
(* drops them.  A run of a thread is the sequence of lock operations of    *)
(* its code path; the only data followed here is the pause flag, which     *)
(* selects the callback's path.                                            *)
(***************************************************************************)
Threads == {"callback", "control", "filler", "collector", "render"}
Locks == {"is_paused", "fade_samples", "buffer", "current_playback_time",
          "visualizer_data", "analysis_results"}

Lock(l) == [op |-> "lock", lock |-> l, value |-> FALSE]
Unlock(l) == [op |-> "unlock", lock |-> l, value |-> FALSE]
ReadPaused == [op |-> "read", lock |-> "is_paused", value |-> FALSE]
SetPaused(v) == [op |-> "set", lock |-> "is_paused", value |-> v]
IfPaused == [op |-> "branch", lock |-> "fade_samples", value |-> FALSE]

\* the two statements in the other order: the flag read under the fade lock
callback_entry_fade_first ==
    << Lock("fade_samples"), Lock("is_paused"), ReadPaused, Unlock("is_paused"),
       IfPaused >>

\* let paused = *is_paused.lock().unwrap(); let mut fade_count = fade_samples.lock().unwrap();
callback_entry ==
    << Lock("is_paused"), ReadPaused, Unlock("is_paused"), Lock("fade_samples"),
       IfPaused >>

\* if paused { let mut buf = playback_buffer.lock().unwrap(); ..; return; }
callback_paused == << Lock("buffer"), Unlock("buffer"), Unlock("fade_samples") >>

\* one released result: the visualizer data locked inside the loop body
RECURSIVE release_results(_)
release_results(k) ==
    IF k = 0 THEN << >>
    ELSE << Lock("visualizer_data"), Unlock("visualizer_data") >>
         \o release_results(k - 1)

\* the playing path with k results released by the drain
callback_playing(k) ==
    << Lock("buffer"), Lock("current_playback_time"),
       Lock("visualizer_data"), Unlock("visualizer_data"),
       Lock("analysis_results") >>
    \o release_results(k)
    \o << Unlock("analysis_results"), Unlock("current_playback_time"),
          Unlock("buffer"), Unlock("fade_samples") >>

pause_run == << Lock("is_paused"), SetPaused(TRUE), Unlock("is_paused") >>

resume_run ==
    << Lock("is_paused"), Lock("fade_samples"), SetPaused(FALSE),
       Unlock("fade_samples"), Unlock("is_paused") >>

\* *paused = !(*paused); if !*paused { fade_samples.lock() .. }
toggle_run(paused) ==
    IF paused
    THEN << Lock("is_paused"), SetPaused(FALSE), Lock("fade_samples"),
            Unlock("fade_samples"), Unlock("is_paused") >>
    ELSE << Lock("is_paused"), SetPaused(TRUE), Unlock("is_paused") >>

filler_run == << Lock("buffer"), Unlock("buffer") >>
collector_run == << Lock("analysis_results"), Unlock("analysis_results") >>
render_run == << Lock("visualizer_data"), Unlock("visualizer_data") >>

(***************************************************************************)
(* Initial state: AudioOutput::new and TerminalVisualizer::new.            *)
(***************************************************************************)
NoPull == [paused |-> FALSE, popped |-> 0, after |-> -1]

\* no call of the analysis functions has been made yet
NoWindowCall == [called |-> FALSE, samples |-> << >>, window_size |-> 0,
                 panicked |-> FALSE, frames |-> << >>]
NoFftCall == [called |-> FALSE, spectrum |-> << >>, sample_rate |-> 0,
              window_size |-> 0, k_per_band |-> 0, band_peaks |-> << >>]
\* enum InputEvent, and the input thread's `msg` before its first event
InputEvent(kind, key) == [kind |-> kind, key |-> key]
NoEvent == InputEvent("none", "")

\* should_quit has not been set yet
NoStop == [rendered |-> -1, decoded |-> -1, received |-> -1, results |-> -1,
           analyzed |-> -1]

\* no seek has been made yet
NoSeek == [received |-> -1, played |-> -1]

NoLabelCall == [called |-> FALSE, midi_note |-> 0, panicked |-> FALSE,
                rounded_midi |-> 0,
                label |-> SingleNoteLabel("", 0, format_signed(0))]
NoNoteCall == [called |-> FALSE, frequencies |-> << >>, panicked |-> FALSE,
               label |-> NoLabel]

Init ==
    /\ sample_rate \in SampleRates
    /\ is_paused = FALSE
    /\ fade_samples = 0
    /\ buffer = << >>
    /\ analysis_results = << >>
    /\ current_playback_time = 0
    /\ vis_current_time = 0
    /\ amplitude_samples = << >>
    /\ note_history = << >>
    /\ current_note = 0
    /\ cb_pc = "idle"
    /\ cb_paused = FALSE
    /\ out = << >>
    /\ received = << >>
    /\ played = << >>
    /\ results_sent = << >>
    /\ released = << >>
    /\ last_pull = NoPull
    /\ fade_iters = 0
    /\ fade_clean = TRUE
    /\ consumed = 0
    /\ resume_fade = -1
    /\ drained_at = -1
    /\ redrained = FALSE
    /\ sample_buffer = << >>
    /\ analysis_chunk = << >>
    /\ analysis_tx = << >>
    /\ emitted = << >>
    /\ decoded = 0
    /\ eof = FALSE
    /\ analyzer_time = 0
    /\ analyzer_pc = "run"
    /\ result_tx = << >>
    /\ player_time = 0
    /\ pulled = << >>
    /\ analyzed = << >>
    /\ underrun = FALSE
    /\ skipped = << >>
    /\ window_call = NoWindowCall
    /\ fft_call = NoFftCall
    /\ note_call = NoNoteCall
    /\ label_call = NoLabelCall
    /\ prog = [t \in Threads |-> << >>]
    /\ held = [l \in Locks |-> "none"]
    /\ read_position = 0
    /\ seek_mark = NoSeek
    /\ should_quit = FALSE
    /\ rendered = 0
    /\ stop_mark = NoStop
    /\ stdin_events = << >>
    /\ typed = 0
    /\ input_pc = "read"
    /\ input_event = NoEvent
    /\ event_tx = << >>
    /\ main_pc = "poll"
    /\ synth_note = "none"
    /\ quit_read = FALSE

engine_vars == << is_paused, fade_samples, buffer, current_playback_time,
                  vis_current_time, amplitude_samples, cb_pc, cb_paused, out,
                  received, played, last_pull, fade_iters, fade_clean,
                  consumed, resume_fade >>

sequencer_vars == << analysis_results, note_history, current_note, results_sent,
                     released, drained_at, redrained >>

(***************************************************************************)
(* pause / resume / toggle.  resume and toggle write while they hold the   *)
(* pause-flag lock and wait for the fade-counter lock, which the callback  *)
(* holds from its second statement to its return: they take effect between *)
(* two callback bodies, never between the callback's read of the flag and  *)
(* a later read of it.                                                     *)
(***************************************************************************)
Pause ==
    /\ is_paused' = TRUE
    /\ fade_iters' = IF is_paused THEN fade_iters ELSE 0
    /\ fade_clean' = IF is_paused THEN fade_clean ELSE (fade_samples = 0)
    /\ resume_fade' = -1
    /\ UNCHANGED << sample_rate, fade_samples, buffer, current_playback_time,
                    vis_current_time, amplitude_samples, cb_pc, cb_paused, out,
                    received, played, last_pull, consumed >>
    /\ UNCHANGED sequencer_vars
    /\ UNCHANGED pipeline_vars

Resume ==
    /\ is_paused' = FALSE
    /\ fade_samples' = 0
    /\ resume_fade' = fade_samples
    /\ UNCHANGED << sample_rate, buffer, current_playback_time, vis_current_time,
                    amplitude_samples, cb_pc, cb_paused, out, received, played,
                    last_pull, fade_iters, fade_clean, consumed >>
    /\ UNCHANGED sequencer_vars
    /\ UNCHANGED pipeline_vars

\* toggle without the reset of the fade counter
ToggleKeepingFade ==
    /\ is_paused' = ~is_paused
    /\ fade_iters' = IF is_paused' THEN 0 ELSE fade_iters
    /\ fade_clean' = IF is_paused' THEN (fade_samples = 0) ELSE fade_clean
    /\ resume_fade' = IF is_paused' THEN -1 ELSE fade_samples
    /\ UNCHANGED << sample_rate, fade_samples, buffer, current_playback_time,
                    vis_current_time, amplitude_samples, cb_pc, cb_paused, out,
                    received, played, last_pull, consumed >>
    /\ UNCHANGED sequencer_vars
    /\ UNCHANGED pipeline_vars

Toggle ==
    /\ is_paused' = ~is_paused
    /\ fade_samples' = IF ~is_paused' THEN 0 ELSE fade_samples
    /\ fade_iters' = IF is_paused' THEN 0 ELSE fade_iters
    /\ fade_clean' = IF is_paused' THEN (fade_samples = 0) ELSE fade_clean
    /\ resume_fade' = IF is_paused' THEN -1 ELSE fade_samples
    /\ UNCHANGED << sample_rate, buffer, current_playback_time, vis_current_time,
                    amplitude_samples, cb_pc, cb_paused, out, received, played,
                    last_pull, consumed >>
    /\ UNCHANGED sequencer_vars
    /\ UNCHANGED pipeline_vars

(***************************************************************************)
(* start_buffer_filling: one received chunk pushed under the buffer lock.  *)
(***************************************************************************)
Fill(len, max) ==
    /\ Len(received) + len <= max
    /\ LET chunk == [i \in 1..len |-> Len(received) + i]
       IN  /\ buffer' = push_chunk(buffer, chunk)
           /\ received' = received \o chunk
    /\ UNCHANGED << sample_rate, is_paused, fade_samples, current_playback_time,
                    vis_current_time, amplitude_samples, cb_pc, cb_paused, out,
                    played, last_pull, fade_iters, fade_clean, consumed,
                    resume_fade >>
    /\ UNCHANGED sequencer_vars
    /\ UNCHANGED pipeline_vars

BufferFill(len) == Fill(len, MaxSamples)

(***************************************************************************)
(* start_analysis_collection: one received result pushed on the heap.      *)
(***************************************************************************)
Collect(k, max) ==
    /\ Len(results_sent) < max
    /\ LET result == AnalysisResult(k * Tick, Len(results_sent) + 1)
       IN  /\ analysis_results' = HeapPush(analysis_results, result)
           /\ results_sent' = Append(results_sent, result.timestamp)
    /\ drained_at' = -1
    /\ redrained' = FALSE
    /\ UNCHANGED << note_history, current_note, released, sample_rate >>
    /\ UNCHANGED engine_vars
    /\ UNCHANGED pipeline_vars

AnalysisCollect(k) == Collect(k, MaxResults)

(***************************************************************************)
(* The hardware callback.                                                  *)
(***************************************************************************)
\* let paused = *is_paused.lock().unwrap();
CallbackReadPaused ==
    /\ cb_pc = "idle"
    /\ is_paused \/ current_playback_time + Tick <= MaxTicks * Tick
    /\ cb_pc' = "locked"
    /\ cb_paused' = is_paused
    /\ UNCHANGED << sample_rate, is_paused, fade_samples, buffer,
                    current_playback_time, vis_current_time, amplitude_samples,
                    out, received, played, last_pull, fade_iters, fade_clean,
                    consumed, resume_fade >>
    /\ UNCHANGED sequencer_vars
    /\ UNCHANGED pipeline_vars

\* the paused branch without its return: the drain runs after the fade loop
CallbackPausedFallThrough(n) ==
    /\ cb_pc = "locked"
    /\ cb_paused
    /\ LET r == paused_loop(n, fade_samples, buffer, D, << >>, << >>, 0)
           q == check_and_display_analysis(analysis_results,
                                           current_playback_time,
                                           note_history, current_note)
       IN  /\ fade_samples' = r.fade
           /\ buffer' = r.buf
           /\ out' = r.out
           /\ played' = played \o r.popped
           /\ fade_iters' = fade_iters + r.iters
           /\ fade_clean' = (fade_clean /\ Len(r.popped) = r.iters)
           /\ consumed' = consumed + Len(r.popped)
           /\ analysis_results' = q.heap
           /\ note_history' = q.hist
           /\ current_note' = q.note
           /\ released' = q.rel
           /\ last_pull' = [paused |-> TRUE, popped |-> Len(r.popped),
                            after |-> resume_fade]
    /\ cb_pc' = "idle"
    /\ UNCHANGED << sample_rate, is_paused, current_playback_time,
                    vis_current_time, amplitude_samples, cb_paused, received,
                    resume_fade, results_sent, drained_at, redrained >>
    /\ UNCHANGED pipeline_vars

\* if paused { .. return; }
CallbackPaused(n) ==
    /\ cb_pc = "locked"
    /\ cb_paused
    /\ LET r == paused_loop(n, fade_samples, buffer, D, << >>, << >>, 0)
       IN  /\ fade_samples' = r.fade
           /\ buffer' = r.buf
           /\ out' = r.out
           /\ played' = played \o r.popped
           /\ fade_iters' = fade_iters + r.iters
           /\ fade_clean' = (fade_clean /\ Len(r.popped) = r.iters)
           /\ consumed' = consumed + Len(r.popped)
           /\ last_pull' = [paused |-> TRUE, popped |-> Len(r.popped),
                            after |-> resume_fade]
    /\ cb_pc' = "idle"
    /\ UNCHANGED << sample_rate, is_paused, current_playback_time,
                    vis_current_time, amplitude_samples, cb_paused, received,
                    resume_fade >>
    /\ UNCHANGED sequencer_vars
    /\ UNCHANGED pipeline_vars

\* the playing path, the visualizer update and the drain
CallbackPlaying(n) ==
    /\ cb_pc = "locked"
    /\ ~cb_paused
    /\ current_playback_time + n * Tick <= MaxTicks * Tick
    /\ LET r == play_loop(n, fade_samples, buffer, current_playback_time,
                          sample_rate, << >>, << >>, << >>)
           q == check_and_display_analysis(analysis_results, r.clock,
                                           note_history, current_note)
       IN  /\ buffer' = r.buf
           /\ current_playback_time' = r.clock
           /\ out' = r.out
           /\ played' = played \o r.popped
           /\ consumed' = consumed + n
           /\ vis_current_time' = r.clock
           /\ amplitude_samples' = extend_amplitude(amplitude_samples, r.frames)
           /\ analysis_results' = q.heap
           /\ note_history' = q.hist
           /\ current_note' = q.note
           /\ released' = q.rel
           /\ last_pull' = [paused |-> FALSE, popped |-> Len(r.popped),
                            after |-> resume_fade]
    /\ cb_pc' = "idle"
    /\ UNCHANGED << sample_rate, is_paused, fade_samples, cb_paused, received,
                    results_sent, fade_iters, fade_clean, resume_fade,
                    drained_at, redrained >>
    /\ UNCHANGED pipeline_vars

Next ==
    \/ Pause
    \/ Resume
    \/ Toggle
    \/ \E len \in 1..MaxChunk : BufferFill(len)
    \/ \E k \in 0..MaxTs : AnalysisCollect(k)
    \/ CallbackReadPaused
    \/ \E n \in 1..MaxPull : CallbackPaused(n)
    \/ \E n \in 1..MaxPull : CallbackPlaying(n)

Spec == Init /\ [][Next]_vars

(***************************************************************************)
(* The sequencer alone: check_and_display_analysis applied at any clock    *)
(* value to a heap filled in any order.                                    *)
(***************************************************************************)
SeqDrain(k) ==
    /\ LET t == k * Tick
           q == check_and_display_analysis(analysis_results, t, note_history,
                                           current_note)
       IN  /\ current_playback_time' = t
           /\ analysis_results' = q.heap
           /\ note_history' = q.hist
           /\ current_note' = q.note
           /\ released' = q.rel
           /\ drained_at' = t
           /\ redrained' = (drained_at = t)
    /\ UNCHANGED << sample_rate, is_paused, fade_samples, buffer,
                    vis_current_time, amplitude_samples, cb_pc, cb_paused, out,
                    received, played, results_sent, last_pull, fade_iters,
                    fade_clean, consumed, resume_fade >>
    /\ UNCHANGED pipeline_vars

SeqPush(k) == Collect(k, SeqMaxResults)

SeqNext ==
    \/ \E k \in 0..SeqMaxTs : SeqPush(k)
    \/ \E k \in 0..SeqMaxTs : SeqDrain(k)

SeqInit == Init /\ sample_rate = 1000

SeqSpec == SeqInit /\ [][SeqNext]_vars

\* the sequencer with pulls that keep occurring: a drain at the latest clock
\* is never put off for ever
LivePush(k) == Collect(k, LiveMaxResults)

LiveNext ==
    \/ \E k \in 0..LiveMaxTs : LivePush(k)
    \/ \E k \in 0..LiveMaxTs : SeqDrain(k)

SeqFairSpec == SeqInit /\ [][LiveNext]_vars /\ WF_vars(SeqDrain(LiveMaxTs))

(***************************************************************************)
(* The producer against the puller: the buffer filler, pause/resume and    *)
(* the hardware callback, with no analysis result in flight.               *)
(***************************************************************************)
OverFill(len) == Fill(len, FillMaxSamples)

FillNext ==
    \/ \E len \in 1..MaxChunk : OverFill(len)
    \/ Pause
    \/ Resume
    \/ CallbackReadPaused
    \/ \E n \in 1..MaxPull : CallbackPaused(n)
    \/ \E n \in 1..MaxPull : CallbackPlaying(n)

FillInit == Init /\ sample_rate = 1000

FillSpec == FillInit /\ [][FillNext]_vars

(***************************************************************************)
(* stream.rs and analyzer.rs: the streaming player.  The decoder thread    *)
(* pushes every decoded sample on the playback buffer and hands the        *)
(* analyzer a chunk whenever ANALYSIS_CHUNK_SIZE samples have gathered;    *)
(* the analyzer thread stamps each result with its own clock; the output   *)
(* callback pops data.len() samples and advances the playback clock.       *)
(***************************************************************************)
\* Duration::from_secs_f32(n as f32 / sample_rate): n / sr seconds, to the nearest ns
from_secs_f32(n, sr) ==
    n * (NanosPerSec \div sr) + ((n * (NanosPerSec % sr)) + (sr \div 2)) \div sr

\* analyze_chunk: the window call with window_size = samples.len(), then the
\* band labels ("notes": fft.rs has no fft_chunk, the labels are not computed)
analyze_chunk(samples) ==
    LET w == window_audio_samples(samples, Len(samples))
    IN  IF w.panicked THEN [panicked |-> TRUE, label |-> "none"]
        ELSE IF w.frames = << >> THEN [panicked |-> FALSE, label |-> "Silence"]
        ELSE [panicked |-> FALSE, label |-> "notes"]

\* the decode loop with a failed send treated as fatal: `?` for `if let Err(_)`
DecodePacketStopOnSendError(n) ==
    /\ ~eof
    /\ decoded + n <= MaxDecoded
    /\ LET samples == [i \in 1..n |-> decoded + i]
           gathered == analysis_chunk \o samples
       IN  /\ sample_buffer' = sample_buffer \o samples
           /\ decoded' = decoded + n
           /\ IF Len(gathered) >= ANALYSIS_CHUNK_SIZE
              THEN /\ analysis_chunk' = << >>
                   /\ emitted' = Append(emitted, gathered)
                   /\ analysis_tx' = IF analyzer_pc = "run"
                                     THEN Append(analysis_tx, gathered)
                                     ELSE analysis_tx
                   /\ skipped' = IF analyzer_pc = "run"
                                 THEN skipped
                                 ELSE Append(skipped, gathered)
                   /\ eof' = (analyzer_pc # "run")
              ELSE /\ analysis_chunk' = gathered
                   /\ UNCHANGED << emitted, analysis_tx, skipped, eof >>
    /\ UNCHANGED << analyzer_time, analyzer_pc, result_tx, player_time,
                    pulled, analyzed, underrun >>
    /\ UNCHANGED << sample_rate, engine_vars, sequencer_vars, dsp_vars, format_vars,
                    sync_vars, seek_vars, quit_vars, synth_vars >>

\* one packet decoded: the body of the decode loop
DecodePacket(n) ==
    /\ ~eof
    /\ decoded + n <= MaxDecoded
    /\ LET samples == [i \in 1..n |-> decoded + i]
           gathered == analysis_chunk \o samples
       IN  /\ sample_buffer' = sample_buffer \o samples
           /\ decoded' = decoded + n
           /\ IF Len(gathered) >= ANALYSIS_CHUNK_SIZE
              THEN /\ analysis_chunk' = << >>
                   /\ emitted' = Append(emitted, gathered)
                   \* send fails once the analyzer thread is gone: the chunk is skipped
                   /\ analysis_tx' = IF analyzer_pc = "run"
                                     THEN Append(analysis_tx, gathered)
                                     ELSE analysis_tx
                   /\ skipped' = IF analyzer_pc = "run"
                                 THEN skipped
                                 ELSE Append(skipped, gathered)
              ELSE /\ analysis_chunk' = gathered
                   /\ UNCHANGED << emitted, analysis_tx, skipped >>
    /\ UNCHANGED << eof, analyzer_time, analyzer_pc, result_tx, player_time,
                    pulled, analyzed, underrun >>
    /\ UNCHANGED << sample_rate, engine_vars, sequencer_vars, dsp_vars, format_vars,
                    sync_vars, seek_vars, quit_vars, synth_vars >>

\* next_packet returns UnexpectedEof: break, Ok(())
DecodeEof ==
    /\ ~eof
    /\ eof' = TRUE
    /\ UNCHANGED << sample_buffer, analysis_chunk, analysis_tx, emitted, decoded,
                    analyzer_time, analyzer_pc, result_tx, player_time, pulled,
                    analyzed, underrun, skipped >>
    /\ UNCHANGED << sample_rate, engine_vars, sequencer_vars, dsp_vars, format_vars,
                    sync_vars, seek_vars, quit_vars, synth_vars >>

\* AudioAnalyzer::run: one chunk received, analysed, its result sent
Analyze ==
    /\ analyzer_pc = "run"
    /\ analysis_tx # << >>
    /\ LET samples == Head(analysis_tx)
           r == analyze_chunk(samples)
       IN  /\ analyzed' = Append(analyzed, samples[1])
           /\ IF r.panicked
              THEN /\ analyzer_pc' = "panicked"
                   /\ analysis_tx' = << >>
                   /\ UNCHANGED << result_tx, analyzer_time >>
              ELSE /\ analysis_tx' = Tail(analysis_tx)
                   /\ result_tx' = Append(result_tx,
                                          [timestamp |-> analyzer_time,
                                           first |-> samples[1],
                                           label |-> r.label])
                   /\ analyzer_time' = analyzer_time
                                       + from_secs_f32(Len(samples), sample_rate)
                   /\ UNCHANGED analyzer_pc
    /\ UNCHANGED << sample_buffer, analysis_chunk, emitted, decoded, eof,
                    player_time, pulled, underrun, skipped >>
    /\ UNCHANGED << sample_rate, engine_vars, sequencer_vars, dsp_vars, format_vars,
                    sync_vars, seek_vars, quit_vars, synth_vars >>

\* the output callback on a stereo slice of 2 * frames slots
PlayerCallback(frames) ==
    /\ player_time + from_secs_f32(frames, sample_rate)
          <= MaxDecoded * SamplePeriod(sample_rate)
    /\ LET n == 2 * frames
           k == IF n <= Len(sample_buffer) THEN n ELSE Len(sample_buffer)
           samples_played == n \div 2
           after == player_time + from_secs_f32(samples_played, sample_rate)
       IN  /\ sample_buffer' = SubSeq(sample_buffer, k + 1, Len(sample_buffer))
           /\ player_time' = after
           /\ pulled' = pulled \o [i \in 1..k |-> [before |-> player_time,
                                                   after |-> after]]
           /\ underrun' = (underrun \/ k < n)
    /\ UNCHANGED << analysis_chunk, analysis_tx, emitted, decoded, eof,
                    analyzer_time, analyzer_pc, result_tx, analyzed, skipped >>
    /\ UNCHANGED << sample_rate, engine_vars, sequencer_vars, dsp_vars, format_vars,
                    sync_vars, seek_vars, quit_vars, synth_vars >>

StreamNext ==
    \/ \E n \in 1..MaxPacket : DecodePacket(n)
    \/ DecodeEof
    \/ Analyze
    \/ \E frames \in 1..MaxFrames : PlayerCallback(frames)

StreamInit == Init /\ sample_rate = 1000

StreamSpec == StreamInit /\ [][StreamNext]_vars

(***************************************************************************)
(* analyze_frequency_bands applied to any spectrum of an 8-sample window   *)
(* (5 bins) at four sample rates, for any k_per_band.                      *)
(***************************************************************************)
FftWindows == {8}
FftRates == {800, 1600, 3200, 6400}
Spectra(window_size) == [1..(window_size \div 2 + 1) -> 0..MaxMagnitude]

FftCall(spectrum, sample_rate_, window_size, k_per_band) ==
    /\ ~fft_call.called
    /\ fft_call' = [called |-> TRUE, spectrum |-> spectrum,
                    sample_rate |-> sample_rate_, window_size |-> window_size,
                    k_per_band |-> k_per_band,
                    band_peaks |-> analyze_frequency_bands(spectrum, sample_rate_,
                                                           window_size, k_per_band)]
    /\ UNCHANGED << sample_rate, engine_vars, sequencer_vars, stream_vars,
                    window_call, note_call, format_vars,
                    sync_vars, seek_vars, quit_vars, synth_vars >>

FftNext == \E window_size \in FftWindows, sample_rate_ \in FftRates,
              k_per_band \in 0..MaxPeaks :
               \E spectrum \in Spectra(window_size) :
                   FftCall(spectrum, sample_rate_, window_size, k_per_band)

FftInit == Init /\ sample_rate = 1000

FftSpec == FftInit /\ [][FftNext]_vars

(***************************************************************************)
(* The sequencer fed as the analyzer feeds it, one result per chunk with   *)
(* increasing timestamps, and drained as the pulls drain it, at a clock     *)
(* that advances, for long enough to fill the note history.                *)
(***************************************************************************)
HistPush ==
    /\ Len(analysis_results) < MaxPending
    /\ Collect(Len(results_sent) + 1, HistMaxResults)

\* the drain of a pull of n samples: the clock has advanced by n periods
HistDrain(n) ==
    /\ current_playback_time + n * Tick <= HistMaxResults * Tick
    /\ SeqDrain(current_playback_time \div Tick + n)

HistNext ==
    \/ HistPush
    \/ \E n \in 0..MaxPull : HistDrain(n)

HistSpec == SeqInit /\ [][HistNext]_vars

(***************************************************************************)
(* frequency_to_note applied to any list of frequencies, for any order of  *)
(* the chord table.                                                        *)
(***************************************************************************)
Frequencies == {0, 5, 19, 20, 262, 330, 392, 440}
FrequencyLists == UNION {[1..n -> Frequencies] : n \in 0..MaxFreqs}

\* "" when no chord matches
FirstMatches(frequencies) ==
    LET matching == matching_chords(dedup(detect_notes(frequencies)))
    IN  IF matching = {} THEN {""} ELSE matching

NoteCall(frequencies, first) ==
    /\ ~note_call.called
    /\ first \in FirstMatches(frequencies)
    /\ LET r == frequency_to_note(frequencies, first)
       IN  note_call' = [called |-> TRUE, frequencies |-> frequencies,
                         panicked |-> r.panicked, label |-> r.label]
    /\ UNCHANGED << sample_rate, engine_vars, sequencer_vars, stream_vars,
                    window_call, fft_call, format_vars,
                    sync_vars, seek_vars, quit_vars, synth_vars >>

NoteNext == \E frequencies \in FrequencyLists :
                \E first \in FirstMatches(frequencies) :
                    NoteCall(frequencies, first)

NoteInit == Init /\ sample_rate = 1000

NoteSpec == NoteInit /\ [][NoteNext]_vars

(***************************************************************************)
(* window_audio_samples applied to any slice and any window size.          *)
(***************************************************************************)
SampleSlices == UNION {[1..n -> SampleValues] : n \in 0..MaxWindowLen}

WindowCall(samples, window_size) ==
    /\ ~window_call.called
    /\ LET r == window_audio_samples(samples, window_size)
       IN  window_call' = [called |-> TRUE, samples |-> samples,
                           window_size |-> window_size,
                           panicked |-> r.panicked, frames |-> r.frames]
    /\ UNCHANGED << sample_rate, engine_vars, sequencer_vars, stream_vars,
                    fft_call, note_call, format_vars,
                    sync_vars, seek_vars, quit_vars, synth_vars >>

WindowNext == \E samples \in SampleSlices, window_size \in 0..MaxWindow :
                  WindowCall(samples, window_size)

WindowInit == Init /\ sample_rate = 1000

WindowSpec == WindowInit /\ [][WindowNext]_vars

(***************************************************************************)
(* Steps of the callback, as actions.                                      *)
(***************************************************************************)
ReadStep == cb_pc = "idle" /\ cb_pc' = "locked"
PlayingPull == cb_pc = "locked" /\ ~cb_paused /\ cb_pc' = "idle"
PausedPull == cb_pc = "locked" /\ cb_paused /\ cb_pc' = "idle"

Range(f) == {f[i] : i \in 1..Len(f)}
Due(heap, t) == {r \in Range(heap) : r.timestamp <= t}
Later(heap, t) == {r \in Range(heap) : r.timestamp > t}
Sorted(rel) == \A i, j \in 1..Len(rel) : i < j => rel[i].timestamp <= rel[j].timestamp
AsHistory(rel) == [i \in 1..Len(rel) |-> << rel[i].timestamp, rel[i].note >>]
Unscaled(buf, n) == [i \in 1..n |-> IF i <= Len(buf) THEN buf[i] * D ELSE 0]
Silence(n) == [i \in 1..n |-> 0]

\* C1: the visualizer feed's label and note history change only in a playing
\* pull, and after every step no entry of the note history and no current
\* label has a timestamp greater than the playback clock.
C1_LabelsGatedByClock ==
    [][ /\ \A i \in 1..Len(note_history') :
               note_history'[i][1] <= current_playback_time'
        /\ current_note' # 0 => results_sent'[current_note'] <= current_playback_time'
        /\ (note_history' # note_history \/ current_note' # current_note)
               => PlayingPull ]_vars

\* a result pushed ahead of the clock was released by the pull that brought
\* the clock to its timestamp
C1_Witness ==
    /\ released # << >>
    /\ released[1].timestamp = current_playback_time
    /\ current_note = released[1].note
    /\ ~last_pull.paused

\* C2: one drain at clock t releases exactly the queued results with
\* timestamp <= t, in non-decreasing timestamp order, appends them to the
\* note history in that order and leaves exactly the results with timestamp
\* > t queued.
C2_DrainReleasesDuePrefix ==
    [][ drained_at' # -1 =>
            /\ Range(released') = Due(analysis_results, drained_at')
            /\ Sorted(released')
            /\ Range(analysis_results') = Later(analysis_results, drained_at')
            /\ Len(released') + Len(analysis_results') = Len(analysis_results)
            /\ note_history' = note_history \o AsHistory(released') ]_vars

\* push 5, 1, 3 then drain at 4: 1 then 3 released, 5 left
C2_Witness ==
    /\ results_sent = << 5 * Tick, Tick, 3 * Tick >>
    /\ drained_at = 4 * Tick
    /\ AsHistory(released) = << << Tick, 2 >>, << 3 * Tick, 3 >> >>
    /\ analysis_results = << AnalysisResult(5 * Tick, 1) >>

\* C3: a drain at the clock value of the drain before it, with no push in
\* between, releases nothing and leaves the heap, the note history and the
\* current label unchanged; a drain at a larger clock value, again with no push
\* in between, releases exactly the queued results with timestamp <= it.
C3_DrainIdempotent ==
    [][ /\ (drained_at # -1 /\ drained_at' = drained_at) =>
               /\ released' = << >>
               /\ UNCHANGED << analysis_results, note_history, current_note >>
        /\ (drained_at # -1 /\ drained_at' > drained_at) =>
               /\ Range(released') = Due(analysis_results, drained_at')
               /\ Range(analysis_results') = Later(analysis_results, drained_at') ]_vars

\* a second drain at the same clock, after a first one that released
\* something and left something
C3_Witness ==
    /\ redrained
    /\ released = << >>
    /\ note_history # << >>
    /\ analysis_results # << >>

\* C4: a playing pull of n samples on a buffer of m < n samples outputs the
\* m samples unscaled and then n - m zeros, empties the buffer, advances the
\* clock by n sample periods and drains the heap at the advanced clock.
C4_UnderrunSilenceFill ==
    [][ (PlayingPull /\ Len(buffer) < Len(out')) =>
            /\ out' = Unscaled(buffer, Len(out'))
            /\ buffer' = << >>
            /\ current_playback_time' = current_playback_time + Len(out') * Tick
            /\ vis_current_time' = current_playback_time'
            /\ Range(released') = Due(analysis_results, current_playback_time')
            /\ Range(analysis_results') = Later(analysis_results, current_playback_time') ]_vars

\* a pull that found fewer samples than it asked for, and whose drain released
\* a result
C4_Witness ==
    /\ ~last_pull.paused
    /\ last_pull.popped >= 1
    /\ last_pull.popped < Len(out)
    /\ released # << >>

\* C5: the samples popped so far, followed by the samples still buffered, are
\* the samples received, in arrival order; a playing pull writes silence only
\* to the positions the buffer had no sample for.
C5_NoSkippedOrReorderedAudio ==
    [][ /\ played' \o buffer' = received'
        /\ PlayingPull =>
               \A i \in 1..Len(out') : (out'[i] = 0) <=> (i > Len(buffer))
        /\ played' # played => (PlayingPull \/ PausedPull) ]_vars

\* chunks arrived between the pulls, a fade pull popped, and samples are
\* still buffered
C5_Witness ==
    /\ Len(played) >= 2
    /\ buffer # << >>
    /\ last_pull.paused
    /\ last_pull.popped >= 1
    /\ Len(received) = MaxSamples

\* C6 (as claimed): in a fade that began at counter 0 and never found the
\* buffer empty, the N-th sample popped is output multiplied by 1 - N/D.
C6_FadeMultiplierPerSample ==
    [][ (PausedPull /\ is_paused /\ fade_clean /\ Len(buffer) >= Len(out')) =>
            \A i \in 1..Len(out') :
                fade_iters + i - 1 < D =>
                    out'[i] = buffer[i] * (D - (fade_iters + i - 1)) ]_vars

\* C7 (as claimed): a fade that began at counter 0, never found the buffer
\* empty and is complete has popped exactly D samples.
C7_FadeLastsDSamples ==
    (is_paused /\ fade_clean /\ fade_samples >= D) => fade_iters = D

\* C8: a pull that read the pause flag set and finds the fade counter at D or
\* more writes 0.0 to every output sample and leaves the ring buffer, the
\* counter and the popped samples as they were.
C8_PausedPullIsSilent ==
    [][ (PausedPull /\ fade_samples >= D) =>
            /\ Len(out') >= 1
            /\ out' = Silence(Len(out'))
            /\ UNCHANGED << buffer, played, fade_samples >> ]_vars

\* a silent pull with samples waiting in the buffer
C8_Witness ==
    /\ is_paused
    /\ fade_samples >= D
    /\ last_pull.paused
    /\ last_pull.popped = 0
    /\ buffer # << >>
    /\ out # << >>
    /\ out = Silence(Len(out))

\* C9: a pull that reads the pause flag after a resume (or a toggle leaving
\* pause) and before the next pause reads it clear, and a pull that read it
\* clear outputs the popped samples at multiplier 1.0 whatever the counter is.
C9_ResumeRestoresUnitGain ==
    [][ /\ (ReadStep /\ resume_fade # -1) => ~cb_paused'
        /\ PlayingPull => out' = Unscaled(buffer, Len(out')) ]_vars

\* a pull after a resume that came in the middle of a fade
C9_Witness ==
    /\ ~last_pull.paused
    /\ last_pull.popped >= 1
    /\ last_pull.after \in 1..(D - 1)

\* C10 (as claimed): the clock, in sample periods, is the number of samples
\* the puller has consumed, those of a pause fade included.
C10_ClockCountsConsumed ==
    current_playback_time = consumed * Tick

(***************************************************************************)
(* C11: overflow policy.  Every step that receives a chunk appends all of  *)
(* its samples, in order, behind the samples already buffered, whatever    *)
(* the buffer holds, the high-water mark included: nothing buffered or     *)
(* incoming is discarded.                                                  *)
(***************************************************************************)
FillStep == received' # received

C11_FillerAppendsEverything ==
    [][ FillStep =>
          /\ Len(received') > Len(received)
          /\ SubSeq(received', 1, Len(received)) = received
          /\ buffer' = buffer \o SubSeq(received', Len(received) + 1, Len(received')) ]_vars

\* nothing was pulled, and the last chunk arrived with the buffer above the mark
C11_Witness ==
    /\ Len(buffer) > HighWaterMark + MaxChunk
    /\ buffer = received

(***************************************************************************)
(* C12: the ring buffer is bounded: the number of buffered samples never   *)
(* exceeds a fixed capacity (the high-water mark is the largest capacity   *)
(* the code names).                                                        *)
(***************************************************************************)
C12_BufferBounded == Len(buffer) <= HighWaterMark

(***************************************************************************)
(* C13: when decoding has ended, the chunks emitted are ceil(L / C) in     *)
(* number and their concatenation, in emission order, is the decoded       *)
(* sequence (a final short chunk included).                                *)
(***************************************************************************)
RECURSIVE Concat(_)
Concat(chunks) == IF chunks = << >> THEN << >>
                  ELSE Head(chunks) \o Concat(Tail(chunks))

C13_ChunksCoverStream ==
    eof => /\ Len(emitted) = (decoded + ANALYSIS_CHUNK_SIZE - 1) \div ANALYSIS_CHUNK_SIZE
           /\ Concat(emitted) = [i \in 1..decoded |-> i]

(***************************************************************************)
(* C14: matching timestamps.  With no underrun, every chunk the analyzer   *)
(* has handled and whose first sample has been pulled has a result, and    *)
(* the result's timestamp is the playback clock of the callback that       *)
(* pulled that sample (between its value before and after that callback).  *)
(***************************************************************************)
C14_MatchingTimestamps ==
    ~underrun =>
        \A k \in 1..Len(analyzed) :
            analyzed[k] <= Len(pulled) =>
                \E j \in 1..Len(result_tx) :
                    /\ result_tx[j].first = analyzed[k]
                    /\ pulled[analyzed[k]].before <= result_tx[j].timestamp
                    /\ result_tx[j].timestamp <= pulled[analyzed[k]].after

(***************************************************************************)
(* Claims about window_audio_samples.  L is the length of the slice, W the *)
(* window size, FrameStart(j) the start of the j-th frame.                 *)
(***************************************************************************)
WinL == Len(window_call.samples)
WinW == window_call.window_size
WinHop == WinW \div 4
FrameStart(j) == (j - 1) * WinHop
Returned == window_call.called /\ ~window_call.panicked

(***************************************************************************)
(* C15: on a slice of length L >= W the call returns one frame per start   *)
(* 0, W/4, 2*(W/4), ... with start + W <= L, that is (L - W) div (W/4) + 1 *)
(* frames, each of length W and built from samples[start .. start + W].    *)
(* (Stated for W >= 4, where the stride is not 0.)                         *)
(***************************************************************************)
C15_OneFramePerFittingStart ==
    (window_call.called /\ WinW >= 4 /\ WinL >= WinW) =>
        /\ ~window_call.panicked
        /\ Len(window_call.frames) = ((WinL - WinW) \div WinHop) + 1
        /\ \A j \in 1..Len(window_call.frames) :
              /\ Len(window_call.frames[j]) = WinW
              /\ \A i \in 1..(WinW - 1) :
                    window_call.frames[j][i].x = window_call.samples[FrameStart(j) + i]

(***************************************************************************)
(* C16: the call has no failure mode: for every slice and every W >= 1 it  *)
(* returns without a panic, and with no frame when the slice is shorter    *)
(* than W.                                                                 *)
(***************************************************************************)
C16_WindowNeverFails ==
    (window_call.called /\ WinW >= 1) =>
        /\ ~window_call.panicked
        /\ (WinL < WinW => window_call.frames = << >>)

(***************************************************************************)
(* C17, as claimed: in every frame returned, slots 0 .. W-2 hold the input *)
(* sample times its Hann coefficient and slot W-1 holds the input sample   *)
(* unmodified.                                                             *)
(***************************************************************************)
WindowedSlots(frame, j) ==
    \A i \in 1..(WinW - 1) :
        frame[i] = Times(window_call.samples[FrameStart(j) + i], i - 1)

C17_LastSampleUnmodified ==
    Returned =>
        \A j \in 1..Len(window_call.frames) :
            /\ WindowedSlots(window_call.frames[j], j)
            /\ window_call.frames[j][WinW] = Literal(window_call.samples[FrameStart(j) + WinW])

(***************************************************************************)
(* C17, amended: in every frame returned, slots 0 .. W-2 hold the input    *)
(* sample times its Hann coefficient and slot W-1 holds 0.0, whatever the  *)
(* input sample is.                                                        *)
(***************************************************************************)
C17_LastSampleZero ==
    Returned =>
        \A j \in 1..Len(window_call.frames) :
            /\ Len(window_call.frames[j]) = WinW
            /\ WindowedSlots(window_call.frames[j], j)
            /\ window_call.frames[j][WinW] = Literal(0)

\* a call that returned its frames, over samples that are not 0
C17_Witness ==
    /\ Returned
    /\ Len(window_call.frames) = 4
    /\ window_call.samples[FrameStart(4) + WinW] = 2
    /\ window_call.frames[4][WinW] = Literal(0)

(***************************************************************************)
(* Claims about analyze_frequency_bands.                                   *)
(***************************************************************************)
FftCandidates(i) == band_candidates(fft_call.spectrum, fft_call.sample_rate,
                                    fft_call.window_size, i)
FftPeaks(i) == fft_call.band_peaks[i]
\* the weighted magnitude the call computed for a frequency it returned
WeightedOf(f) ==
    LET bin == f.num \div fft_call.sample_rate
    IN  weighted_magnitude(fft_call.spectrum[bin + 1], bin, fft_call.sample_rate,
                           fft_call.window_size)
Kept(i) == {FftPeaks(i)[j] : j \in 1..Len(FftPeaks(i))}
LeftOut(i) == {FftCandidates(i)[j].frequency : j \in 1..Len(FftCandidates(i))} \ Kept(i)

(***************************************************************************)
(* C18: every frequency in a band's peak list is bin * sample_rate /       *)
(* window_size for a bin whose frequency is inside the band: at or above   *)
(* the low edge and below the high edge.                                   *)
(***************************************************************************)
C18_PeaksInsideBand ==
    fft_call.called =>
        \A i \in 1..Len(bands) : \A j \in 1..Len(FftPeaks(i)) :
            \E bin \in 0..(Len(fft_call.spectrum) - 1) :
                /\ FftPeaks(i)[j] = frequency(bin, fft_call.sample_rate,
                                              fft_call.window_size)
                /\ bands[i][1] * fft_call.window_size <= bin * fft_call.sample_rate
                /\ bin * fft_call.sample_rate < bands[i][2] * fft_call.window_size

(***************************************************************************)
(* C19: each band's peak list has min(k_per_band, number of candidate      *)
(* bins) entries, in order of non-increasing weighted magnitude, and no    *)
(* candidate left out has a larger weighted magnitude than one kept.       *)
(***************************************************************************)
C19_TopKByWeightedMagnitude ==
    fft_call.called =>
        \A i \in 1..Len(bands) :
            /\ Len(FftPeaks(i)) = IF fft_call.k_per_band < Len(FftCandidates(i))
                                  THEN fft_call.k_per_band
                                  ELSE Len(FftCandidates(i))
            /\ \A j \in 1..(Len(FftPeaks(i)) - 1) :
                  WeightedOf(FftPeaks(i)[j]) >= WeightedOf(FftPeaks(i)[j + 1])
            /\ \A f \in LeftOut(i) : \A g \in Kept(i) : WeightedOf(f) <= WeightedOf(g)

\* a band with more candidates than k, whose two peaks are strictly ordered, the
\* first from a higher bin than the second and of the same magnitude (the weight
\* puts it ahead), and that leaves out a smaller candidate
C19_Witness ==
    /\ fft_call.called
    /\ fft_call.k_per_band = 2
    /\ \E i \in 1..Len(bands) :
          /\ Len(FftCandidates(i)) > 2
          /\ Len(FftPeaks(i)) = 2
          /\ WeightedOf(FftPeaks(i)[1]) > WeightedOf(FftPeaks(i)[2])
          /\ FftPeaks(i)[1].num > FftPeaks(i)[2].num
          /\ fft_call.spectrum[FftPeaks(i)[1].num \div fft_call.sample_rate + 1]
                = fft_call.spectrum[FftPeaks(i)[2].num \div fft_call.sample_rate + 1]
          /\ \E f \in LeftOut(i) : WeightedOf(f) < WeightedOf(FftPeaks(i)[2])

(***************************************************************************)
(* Claims about frequency_to_note.  PitchedNames is the set of note names  *)
(* of the input frequencies at or above 20 Hz, by the spec's formula       *)
(* (midi mod 12); Triads are the chords all of whose notes are in it.      *)
(***************************************************************************)
NameOf(midi) == note_names[(midi % 12) + 1]
PitchedNames ==
    {NameOf(rounded_midi(note_call.frequencies[i])) :
        i \in {j \in 1..Len(note_call.frequencies) : note_call.frequencies[j] >= 20}}
Triads == {ch \in DOMAIN CHORD_DATABASE : CHORD_DATABASE[ch] \subseteq PitchedNames}

(***************************************************************************)
(* C20: the call returns a chord label if and only if the pitched names    *)
(* cover one of the 24 triads, the chord named is one they cover, and      *)
(* otherwise (some pitched name, no triad) it returns the note label of    *)
(* the dominant peak, frequencies[0]: name midi mod 12, octave             *)
(* floor(midi / 12) - 1.                                                   *)
(***************************************************************************)
C20_ChordIffTriadCovered ==
    note_call.called =>
        /\ ~note_call.panicked
        /\ (note_call.label.kind = "chord") <=> (Triads # {})
        /\ (note_call.label.kind = "chord") => (note_call.label.name \in Triads)
        /\ (PitchedNames # {} /\ Triads = {} /\ note_call.frequencies[1] > 0) =>
              note_call.label
                 = NoteLabel(NameOf(rounded_midi(note_call.frequencies[1])),
                             (rounded_midi(note_call.frequencies[1]) \div 12) - 1)

(***************************************************************************)
(* C21: frequencies below 20 Hz are non-pitched: the call never fails, the *)
(* result is a chord name, "N/A", or a note label, and a note label is the *)
(* label of one of the input frequencies at or above 20 Hz, never one      *)
(* computed from a frequency below 20 Hz.                                  *)
(***************************************************************************)
C21_SubAudioNeverLabelled ==
    note_call.called =>
        /\ ~note_call.panicked
        /\ note_call.label.kind \in {"chord", "note", "N/A"}
        /\ (note_call.label.kind = "note") =>
              \E i \in 1..Len(note_call.frequencies) :
                  /\ note_call.frequencies[i] >= 20
                  /\ note_call.label
                        = NoteLabel(NameOf(rounded_midi(note_call.frequencies[i])),
                                    (rounded_midi(note_call.frequencies[i]) \div 12) - 1)

(***************************************************************************)
(* The single-note label applied to any MIDI value from one semitone below *)
(* MIDI 0 up to MaxMidi.                                                   *)
(***************************************************************************)
MidiNotes == (0 - MidiSteps)..(MaxMidi * MidiSteps)

LabelCall(midi_note) ==
    /\ ~label_call.called
    /\ LET r == single_note_label(midi_note)
       IN  label_call' = [called |-> TRUE, midi_note |-> midi_note,
                          panicked |-> r.panicked,
                          rounded_midi |-> r.rounded_midi, label |-> r.label]
    /\ UNCHANGED << sample_rate, engine_vars, sequencer_vars, stream_vars,
                    dsp_vars, sync_vars, seek_vars, quit_vars, synth_vars >>

LabelNext == \E midi_note \in MidiNotes : LabelCall(midi_note)

LabelInit == Init /\ sample_rate = 1000

LabelSpec == LabelInit /\ [][LabelNext]_vars

\* the signed number a formatted cents field reads as
CentsPrinted == IF label_call.label.cents.sign = "-"
                THEN 0 - label_call.label.cents.digits
                ELSE label_call.label.cents.digits

(***************************************************************************)
(* C22: for a rounded MIDI number m >= 0 the label is built without        *)
(* failing from names[m mod 12] and octave floor(m / 12) - 1; its cents    *)
(* field is the nearest integer to (midi_note - m) * 100, lies in          *)
(* -50 .. +50 and carries an explicit sign; MIDI 69 (440 Hz) is labelled   *)
(* A4 (+0).                                                                *)
(***************************************************************************)
C22_NoteOctaveCents ==
    (label_call.called /\ label_call.rounded_midi >= 0) =>
        LET m == label_call.rounded_midi
            off == label_call.midi_note - m * MidiSteps
        IN  /\ ~label_call.panicked
            /\ 2 * off >= 0 - MidiSteps /\ 2 * off <= MidiSteps
            /\ label_call.label.name = note_names[(m % 12) + 1]
            /\ label_call.label.octave = (m \div 12) - 1
            /\ CentsPrinted \in -50..50
            /\ 2 * (MidiSteps * CentsPrinted - 100 * off) \in
                  (0 - MidiSteps)..MidiSteps
            /\ label_call.label.cents.sign \in {"+", "-"}
            /\ (label_call.midi_note = 69 * MidiSteps) =>
                  label_call.label
                     = SingleNoteLabel("A", 4, [sign |-> "+", digits |-> 0])

\* 440 Hz has been labelled
C22_Witness ==
    /\ label_call.called
    /\ label_call.midi_note = 69 * MidiSteps
    /\ label_call.rounded_midi = 69
    /\ label_call.label.cents = [sign |-> "+", digits |-> 0]

(***************************************************************************)
(* C23: latest wins.  After a drain at clock t that releases at least one  *)
(* result, the current label is the label of the last result released,     *)
(* which is a queued result of greatest timestamp among those with         *)
(* timestamp <= t; a drain that releases nothing leaves the current label  *)
(* and the note history unchanged.                                         *)
(***************************************************************************)
C23_LatestWins ==
    [][ drained_at' # -1 =>
            /\ (Due(analysis_results, drained_at') # {}) =>
                   /\ released' # << >>
                   /\ current_note' = released'[Len(released')].note
                   /\ \E r \in Due(analysis_results, drained_at') :
                          /\ r.note = current_note'
                          /\ \A q \in Due(analysis_results, drained_at') :
                                 q.timestamp <= r.timestamp
            /\ (Due(analysis_results, drained_at') = {}) =>
                   /\ released' = << >>
                   /\ UNCHANGED << current_note, note_history >> ]_vars

\* a drain released two results with different timestamps, leaving the label
\* of the later one, which had been pushed first
C23_Witness ==
    /\ drained_at # -1
    /\ Len(released) = 2
    /\ released[1].timestamp < released[2].timestamp
    /\ released[2].note < released[1].note
    /\ current_note = released[2].note

(***************************************************************************)
(* C24: the amplitude window never holds more than AmplitudeCap samples;   *)
(* only a playing pull changes it, and after a playing pull it holds the   *)
(* last min(AmplitudeCap, total) samples of what it held followed by the   *)
(* pull's output, in output order: by induction, the most recent samples   *)
(* output while playing.                                                   *)
(***************************************************************************)
C24_AmplitudeWindowRecent ==
    [][ /\ Len(amplitude_samples') <= AmplitudeCap
        /\ ~PlayingPull => amplitude_samples' = amplitude_samples
        /\ PlayingPull =>
              LET all == Unscaled(amplitude_samples, Len(amplitude_samples))
                            \o out'
                  kept == IF Len(all) < AmplitudeCap THEN Len(all)
                          ELSE AmplitudeCap
              IN  /\ Len(amplitude_samples') = kept
                  /\ Unscaled(amplitude_samples', kept)
                        = SubSeq(all, Len(all) - kept + 1, Len(all)) ]_vars

\* a full window whose oldest sample has been dropped by a later pull
C24_Witness ==
    /\ Len(amplitude_samples) = AmplitudeCap
    /\ consumed > AmplitudeCap
    /\ Len(played) = consumed
    /\ amplitude_samples = SubSeq(played, consumed - AmplitudeCap + 1, consumed)
    /\ amplitude_samples[1] # played[1]
    /\ ~last_pull.paused

(***************************************************************************)
(* C25: the note history never holds more than 20 entries, and a drain     *)
(* leaves in it the last min(20, total) entries of what it held followed   *)
(* by the results the drain released, in release order: a result released  *)
(* at the cap pushes the oldest entry out.                                 *)
(***************************************************************************)
C25_HistoryLastTwenty ==
    [][ /\ Len(note_history') <= HistoryCap
        /\ drained_at' = -1 => note_history' = note_history
        /\ drained_at' # -1 =>
              LET all == note_history \o AsHistory(released')
                  kept == IF Len(all) < HistoryCap THEN Len(all) ELSE HistoryCap
              IN  note_history' = SubSeq(all, Len(all) - kept + 1, Len(all)) ]_vars

\* the history is full and its oldest entry is the second result: the first
\* was removed when the twenty-first was released
C25_Witness ==
    /\ Len(note_history) = HistoryCap
    /\ Len(results_sent) = HistoryCap + 1
    /\ analysis_results = << >>
    /\ note_history[1] = << 2 * Tick, 2 >>
    /\ note_history[HistoryCap] = << (HistoryCap + 1) * Tick, HistoryCap + 1 >>

(***************************************************************************)
(* C27: whenever the pause flag is false the fade counter is 0, so a pause *)
(* entered from playing starts its fade with the counter at 0.             *)
(***************************************************************************)
C27_CounterZeroWhilePlaying == ~is_paused => fade_samples = 0

(***************************************************************************)
(* C30: the analyzer loop survives every chunk it receives: analysis       *)
(* returns, at most one result per chunk is sent, the j-th result is       *)
(* stamped with the summed durations of the chunks before it, and the      *)
(* loop's timestamp is the summed duration of all chunks received.         *)
(***************************************************************************)
C30_AnalyzerSurvivesEveryChunk ==
    LET chunk_duration == from_secs_f32(ANALYSIS_CHUNK_SIZE, sample_rate)
    IN  /\ analyzer_pc = "run"
        /\ Len(result_tx) <= Len(analyzed)
        /\ \A j \in 1..Len(result_tx) :
               result_tx[j].timestamp = (j - 1) * chunk_duration
        /\ analyzer_time = Len(analyzed) * chunk_duration

(***************************************************************************)
(* The threads of the engine stepping through their lock operations.       *)
(***************************************************************************)
lock_frame == << sample_rate, fade_samples, buffer, current_playback_time,
                 vis_current_time, amplitude_samples, cb_pc, out, received,
                 played, last_pull, fade_iters, fade_clean, consumed,
                 resume_fade, sequencer_vars, stream_vars, dsp_vars,
                 format_vars, seek_vars, quit_vars, synth_vars >>

\* a thread starts a run
Begin(t, run) ==
    /\ prog[t] = << >>
    /\ prog' = [prog EXCEPT ![t] = run]
    /\ UNCHANGED << held, is_paused, cb_paused, lock_frame >>

CallbackBegin == Begin("callback", callback_entry)
ControlBegin ==
    \E run \in {pause_run, resume_run, toggle_run(is_paused)} :
        Begin("control", run)
FillerBegin == Begin("filler", filler_run)
CollectorBegin == Begin("collector", collector_run)
RenderBegin == Begin("render", render_run)

\* Mutex::lock: taken when free, otherwise the thread waits
Acquire(t) ==
    /\ prog[t] # << >>
    /\ Head(prog[t]).op = "lock"
    /\ held[Head(prog[t]).lock] = "none"
    /\ held' = [held EXCEPT ![Head(prog[t]).lock] = t]
    /\ prog' = [prog EXCEPT ![t] = Tail(prog[t])]
    /\ UNCHANGED << is_paused, cb_paused, lock_frame >>

\* the guard is dropped
Release(t) ==
    /\ prog[t] # << >>
    /\ Head(prog[t]).op = "unlock"
    /\ held[Head(prog[t]).lock] = t
    /\ held' = [held EXCEPT ![Head(prog[t]).lock] = "none"]
    /\ prog' = [prog EXCEPT ![t] = Tail(prog[t])]
    /\ UNCHANGED << is_paused, cb_paused, lock_frame >>

\* the callback copies the flag
LockedRead ==
    /\ prog["callback"] # << >>
    /\ Head(prog["callback"]).op = "read"
    /\ held["is_paused"] = "callback"
    /\ cb_paused' = is_paused
    /\ prog' = [prog EXCEPT !["callback"] = Tail(prog["callback"])]
    /\ UNCHANGED << held, is_paused, lock_frame >>

\* pause, resume or toggle writes the flag
LockedSet ==
    /\ prog["control"] # << >>
    /\ Head(prog["control"]).op = "set"
    /\ held["is_paused"] = "control"
    /\ is_paused' = Head(prog["control"]).value
    /\ prog' = [prog EXCEPT !["control"] = Tail(prog["control"])]
    /\ UNCHANGED << held, cb_paused, lock_frame >>

\* if paused { .. } else { .. }, with k results due at the drain
CallbackBranch(k) ==
    /\ prog["callback"] # << >>
    /\ Head(prog["callback"]).op = "branch"
    /\ prog' = [prog EXCEPT !["callback"] =
                   Tail(prog["callback"])
                   \o (IF cb_paused THEN callback_paused ELSE callback_playing(k))]
    /\ UNCHANGED << held, is_paused, cb_paused, lock_frame >>

LockNext ==
    \/ CallbackBegin
    \/ ControlBegin
    \/ FillerBegin
    \/ CollectorBegin
    \/ RenderBegin
    \/ \E t \in Threads : Acquire(t)
    \/ \E t \in Threads : Release(t)
    \/ LockedRead
    \/ LockedSet
    \/ \E k \in 0..MaxResults : CallbackBranch(k)

LockInit == Init /\ sample_rate = 1000

LockSpec == LockInit /\ [][LockNext]_vars

\* the mutex a thread is about to take, the thread that has it, and whether
\* the thread is kept waiting
Wants(t) == IF prog[t] # << >> /\ Head(prog[t]).op = "lock"
            THEN Head(prog[t]).lock ELSE "none"
Holder(t) == IF Wants(t) = "none" THEN "none" ELSE held[Wants(t)]
Blocked(t) == Holder(t) # "none"

\* t can run, or waits for a thread that can within n hand-overs
RECURSIVE CanProceed(_, _)
CanProceed(t, n) ==
    \/ ~Blocked(t)
    \/ n > 0 /\ CanProceed(Holder(t), n - 1)

(***************************************************************************)
(* C28: no deadlock among the callback, pause/resume/toggle, the buffer    *)
(* filler, the analysis collector and the render loop: whenever a thread   *)
(* waits for a mutex, the thread holding it can run on to release it,      *)
(* itself waiting at most for threads that can.                            *)
(***************************************************************************)
C28_NoDeadlock ==
    \A t \in Threads :
        Blocked(t) => CanProceed(Holder(t), Cardinality(Threads))

\* resume() holds the pause flag and waits for the fade counter, which the
\* callback holds while it waits for the visualizer data the render loop has
C28_Witness ==
    /\ Holder("control") = "callback"
    /\ held["is_paused"] = "control"
    /\ Holder("callback") = "render"
    /\ Holder("filler") = "callback"

(***************************************************************************)
(* C29: the callback is never kept waiting for a mutex that the analysis   *)
(* collector or the render loop holds.                                     *)
(***************************************************************************)
C29_CallbackNeverWaitsOnWorkers ==
    ~(Blocked("callback") /\ Holder("callback") \in {"collector", "render"})

(***************************************************************************)
(* A seek on the streamer next to the playback engine.  The streamer is    *)
(* not part of the sources: its seek is taken from the specification (the  *)
(* read position is set to the target, clamped to the source length).  The *)
(* engine is the one above; it has no operation a seek could call.         *)
(***************************************************************************)
Seek(p) ==
    /\ read_position' = p
    /\ seek_mark' = [received |-> Len(received), played |-> Len(played)]
    /\ UNCHANGED << sample_rate, engine_vars, sequencer_vars, stream_vars,
                    dsp_vars, format_vars, sync_vars, quit_vars, synth_vars >>

SeekNext ==
    \/ \E p \in 0..MaxSamples : Seek(p)
    \/ \E len \in 1..MaxChunk : BufferFill(len)
    \/ CallbackReadPaused
    \/ \E n \in 1..MaxPull : CallbackPlaying(n)

SeekInit == Init /\ sample_rate = 1000

SeekSpec == SeekInit /\ [][SeekNext]_vars

SeekStep == seek_mark' # seek_mark \/ read_position' # read_position

(***************************************************************************)
(* C26: a seek to position p leaves the engine's ring buffer empty and its *)
(* playback clock at p sample periods, and no sample that was received     *)
(* before the seek is played after it.                                     *)
(***************************************************************************)
C26_SeekFlushesEngine ==
    [][ /\ SeekStep =>
              /\ buffer' = << >>
              /\ current_playback_time' = read_position' * Tick
        /\ seek_mark' # NoSeek =>
              \A i \in (seek_mark'.played + 1)..Len(played') :
                  played'[i] > seek_mark'.received ]_vars

(***************************************************************************)
(* Claims about the fate of each received result.  A result is known by    *)
(* its note id, the order of its arrival.                                  *)
(***************************************************************************)
QueuedTimes(id) ==
    Cardinality({i \in 1..Len(analysis_results) : analysis_results[i].note = id})
ReleasedTimes(id) ==
    Cardinality({i \in 1..Len(note_history) : note_history[i][2] = id})

(***************************************************************************)
(* C31: every received result is either queued once or surfaced once,      *)
(* with its own timestamp, never both and never twice, also when           *)
(* timestamps are equal; a drain at clock t surfaces every result queued   *)
(* with timestamp <= t; and if drains at an advanced clock keep occurring, *)
(* every received result is eventually surfaced.                           *)
(***************************************************************************)
C31_ReleasedExactlyOnce ==
    /\ [](\A id \in 1..Len(results_sent) :
              /\ QueuedTimes(id) + ReleasedTimes(id) = 1
              /\ \A i \in 1..Len(analysis_results) :
                     analysis_results[i].note = id =>
                         analysis_results[i].timestamp = results_sent[id]
              /\ \A i \in 1..Len(note_history) :
                     note_history[i][2] = id =>
                         note_history[i][1] = results_sent[id])
    /\ [][ drained_at' # -1 =>
               \A i \in 1..Len(analysis_results) :
                   analysis_results[i].timestamp <= drained_at' =>
                       /\ \E j \in 1..Len(released') :
                              released'[j] = analysis_results[i]
                       /\ \A j \in 1..Len(analysis_results') :
                              analysis_results'[j].note # analysis_results[i].note
         ]_vars
    /\ \A id \in 1..LiveMaxResults :
           (Len(results_sent) >= id) ~> (ReleasedTimes(id) = 1)

\* two results with the same timestamp, both surfaced, the heap empty
C31_Witness ==
    /\ Len(results_sent) = 2
    /\ results_sent[1] = results_sent[2]
    /\ analysis_results = << >>
    /\ ReleasedTimes(1) = 1
    /\ ReleasedTimes(2) = 1


(***************************************************************************)
(* Claims about the order of the note history.                             *)
(***************************************************************************)
HistTs(i) == note_history[i][1]
\* the position of a history entry in the order of arrival
HistArrival(i) == note_history[i][2]
\* the entries a step appended, the history not being at its cap
Appended == SubSeq(note_history', Len(note_history) + 1, Len(note_history'))

(***************************************************************************)
(* C32, as claimed: for any order in which results arrive, a result that   *)
(* arrives after playback has passed its timestamp included, the           *)
(* timestamps of the note history are non-decreasing.                      *)
(***************************************************************************)
C32_TimelineOrder ==
    \A i \in 1..(Len(note_history) - 1) : HistTs(i) <= HistTs(i + 1)

(***************************************************************************)
(* C32, amended: the entries one drain appends to the note history are in  *)
(* non-decreasing timestamp order, and an entry comes after an entry with  *)
(* a later timestamp only if it arrived after it; a queued result older    *)
(* than an entry of the history arrived after that entry.                  *)
(***************************************************************************)
C32_TimelineOrderUnlessLate ==
    /\ [][\A i \in 1..(Len(Appended) - 1) : Appended[i][1] <= Appended[i + 1][1]]_vars
    /\ [](\A i \in 1..Len(note_history) : \A j \in (i + 1)..Len(note_history) :
            HistTs(i) > HistTs(j) => HistArrival(j) > HistArrival(i))
    /\ [](\A i \in 1..Len(note_history) : \A q \in 1..Len(analysis_results) :
            analysis_results[q].timestamp < HistTs(i)
                => analysis_results[q].note > HistArrival(i))

\* a late result surfaced after a later one, and two results surfaced in
\* timestamp order although they arrived in the other order
C32_Witness ==
    /\ Len(note_history) = 3
    /\ HistTs(1) < HistTs(2)
    /\ HistArrival(1) > HistArrival(2)
    /\ HistTs(3) < HistTs(1)
    /\ HistArrival(3) = 3


(***************************************************************************)
(* C33: a pull that finds the pause flag set, fading or fully paused,      *)
(* leaves the playback clock, the visualizer feed (time, amplitude window, *)
(* current label, note history) and the result heap unchanged: no result   *)
(* is released, even one whose timestamp is at or before the clock.        *)
(***************************************************************************)
C33_PausedPullFrame ==
    [][PausedPull =>
        /\ current_playback_time' = current_playback_time
        /\ vis_current_time' = vis_current_time
        /\ amplitude_samples' = amplitude_samples
        /\ current_note' = current_note
        /\ note_history' = note_history
        /\ analysis_results' = analysis_results]_vars

\* a paused pull has returned with a result queued whose time has come
C33_Witness ==
    /\ cb_pc = "idle"
    /\ last_pull.paused
    /\ is_paused
    /\ analysis_results # << >>
    /\ HeapPeek(analysis_results).timestamp <= current_playback_time
    /\ current_playback_time > 0


(***************************************************************************)
(* C35: toggle() is pause() when playing and resume() when paused: it      *)
(* flips the pause flag, sets the fade counter to 0 exactly when the       *)
(* resulting state is not paused, and leaves the ring buffer, the clock,   *)
(* the result heap and the visualizer feed unchanged.                      *)
(***************************************************************************)
C35_ToggleIsPauseOrResume ==
    [][Toggle =>
        /\ IF is_paused THEN Resume ELSE Pause
        /\ is_paused' = ~is_paused
        /\ fade_samples' = (IF is_paused' THEN fade_samples ELSE 0)
        /\ UNCHANGED << buffer, current_playback_time, analysis_results,
                        vis_current_time, amplitude_samples, current_note,
                        note_history >>]_vars

\* playing again after a toggle (or resume) that interrupted a fade, with
\* samples buffered and a result queued
C35_Witness ==
    /\ ~is_paused
    /\ resume_fade > 0
    /\ fade_samples = 0
    /\ buffer # << >>
    /\ analysis_results # << >>
    /\ current_playback_time > 0


(***************************************************************************)
(* C36: the 24 triads are pairwise distinct sets of 3 notes, so an input   *)
(* whose frequencies map to at most 3 distinct note names covers at most   *)
(* one triad, and the label returned is the same for every iteration order *)
(* of the chord table.                                                     *)
(***************************************************************************)
C36_OrderIndependentUpToThreeNames ==
    /\ Cardinality(DOMAIN CHORD_DATABASE) = 24
    /\ \A a \in DOMAIN CHORD_DATABASE :
          /\ Cardinality(CHORD_DATABASE[a]) = 3
          /\ \A b \in DOMAIN CHORD_DATABASE :
                a # b => CHORD_DATABASE[a] # CHORD_DATABASE[b]
    /\ (note_call.called /\ Cardinality(PitchedNames) <= 3) =>
          /\ Cardinality(Triads) <= 1
          /\ \A first \in FirstMatches(note_call.frequencies) :
                frequency_to_note(note_call.frequencies, first)
                    = [panicked |-> note_call.panicked, label |-> note_call.label]

\* four frequencies of three names, one name twice and not in a row, that
\* cover a triad
C36_Witness ==
    /\ note_call.called
    /\ Len(note_call.frequencies) = 4
    /\ Cardinality(PitchedNames) = 3
    /\ note_call.frequencies[1] = note_call.frequencies[3]
    /\ note_call.frequencies[1] # note_call.frequencies[2]
    /\ note_call.label.kind = "chord"


(***************************************************************************)
(* C34: when the send of a chunk to the analysis path fails (the analyzer  *)
(* is gone), the decode loop drops that chunk only, logs, and goes on: it  *)
(* does not stop, and every decoded sample is appended to the playback     *)
(* buffer, in order.                                                       *)
(***************************************************************************)
SendFailed == Len(skipped') > Len(skipped)

C34_SendFailureSkipsChunkOnly ==
    /\ [][SendFailed =>
            /\ skipped' = Append(skipped, emitted'[Len(emitted')])
            /\ Len(emitted') = Len(emitted) + 1
            /\ analysis_tx' = analysis_tx
            /\ analysis_chunk' = << >>
            /\ sample_buffer'
                  = sample_buffer \o [i \in 1..(decoded' - decoded) |-> decoded + i]
            /\ ~eof']_vars
    /\ [](/\ Len(pulled) + Len(sample_buffer) = decoded
          /\ \A i \in 1..Len(sample_buffer) :
                sample_buffer[i] = decoded - Len(sample_buffer) + i
          /\ Len(skipped) <= Len(emitted)
          /\ skipped = SubSeq(emitted, Len(emitted) - Len(skipped) + 1, Len(emitted))
          /\ (skipped # << >> /\ ~eof /\ decoded < MaxDecoded)
                => ENABLED DecodePacket(1))

\* the second chunk was skipped, the sample after it was decoded, and all
\* five samples are in the playback buffer
C34_Witness ==
    /\ skipped = << << 3, 4 >> >>
    /\ decoded = 5
    /\ sample_buffer = << 1, 2, 3, 4, 5 >>
    /\ analysis_chunk = << 5 >>
    /\ ~eof

(***************************************************************************)
(* The long-running loops of the pipeline and the shared flag should_quit. *)
(* The render loop (visualizer.rs:71-76) is `loop { sleep; lock; clone;    *)
(* render_frame }`; the buffer filler and the analysis collector           *)
(* (aux.rs:188-221) and the analyzer (analyzer.rs:22-46) are `while let    *)
(* Ok(..) = receiver.recv()`; the decode loop (stream.rs:103-162) runs to  *)
(* the end of the file.  None of them reads should_quit.                   *)
(***************************************************************************)
\* SynthApp::update on Escape: *self.should_quit.lock().unwrap() = true
SetStop ==
    /\ ~should_quit
    /\ should_quit' = TRUE
    /\ stop_mark' = [rendered |-> rendered, decoded |-> decoded,
                     received |-> Len(received), results |-> Len(results_sent),
                     analyzed |-> Len(analyzed)]
    /\ UNCHANGED << sample_rate, engine_vars, sequencer_vars, stream_vars,
                    dsp_vars, format_vars, sync_vars, seek_vars, rendered,
                    synth_vars >>

\* one iteration of the render loop
RenderFrame ==
    /\ rendered < MaxRendered
    /\ rendered' = rendered + 1
    /\ UNCHANGED << sample_rate, engine_vars, sequencer_vars, stream_vars,
                    dsp_vars, format_vars, sync_vars, seek_vars, should_quit,
                    stop_mark, synth_vars >>

StopNext ==
    \/ SetStop
    \/ RenderFrame
    \/ \E len \in 1..MaxChunk : BufferFill(len)
    \/ \E k \in 0..MaxTs : AnalysisCollect(k)
    \/ Analyze
    \/ \E n \in 1..MaxPacket : DecodePacket(n)
    \/ DecodeEof

StopInit == Init /\ sample_rate = 1000

StopSpec == StopInit /\ [][StopNext]_vars

(***************************************************************************)
(* C37: once the shared stop flag is set, every long-running loop of the   *)
(* pipeline (render loop, buffer filler, analysis collector, analyzer      *)
(* loop, decode loop) observes it at its next iteration boundary and       *)
(* terminates: after the flag is set a loop finishes at most the iteration *)
(* it is in and starts no other.                                           *)
(***************************************************************************)
C37_LoopsStopOnFlag ==
    should_quit =>
        /\ rendered <= stop_mark.rendered + 1
        /\ Len(received) <= stop_mark.received + MaxChunk
        /\ Len(results_sent) <= stop_mark.results + 1
        /\ Len(analyzed) <= stop_mark.analyzed + 1
        /\ decoded <= stop_mark.decoded + MaxPacket


(***************************************************************************)
(* run_synthesizer (synth.rs:28-107): the input thread reads key events,   *)
(* sends each as an InputEvent and then looks at should_quit; the main     *)
(* loop polls the channel every 50 ms, leaves on Quit, sets should_quit    *)
(* and joins the input thread.  The gate and the frequency follow          *)
(* current_note and are left out.                                          *)
(***************************************************************************)
\* what the synthesizer leaves alone: the player's state
synth_frame == << sample_rate, engine_vars, sequencer_vars, stream_vars,
                  dsp_vars, format_vars, sync_vars, seek_vars >>

Keys == {"q", "a", "x"}

\* the match on the event: 'q', a note key, anything else
event_of(key) ==
    IF key = "q" THEN InputEvent("Quit", "")
    ELSE IF key \in {"a", "s", "d", "f"} THEN InputEvent("KeyDown", key)
    ELSE InputEvent("KeyUp", "")

\* a key is typed
KeyPress(key) ==
    /\ typed < MaxKeys
    /\ typed' = typed + 1
    /\ stdin_events' = Append(stdin_events, key)
    /\ UNCHANGED << input_pc, input_event, event_tx, main_pc, synth_note,
                    quit_read, quit_vars >>
    /\ UNCHANGED synth_frame

\* for event_results in stdin_events: waits for the next key event
InputRead ==
    /\ input_pc = "read"
    /\ stdin_events # << >>
    /\ input_event' = event_of(Head(stdin_events))
    /\ stdin_events' = Tail(stdin_events)
    /\ quit_read' = (quit_read \/ Head(stdin_events) = "q")
    /\ input_pc' = "send"
    /\ UNCHANGED << typed, event_tx, main_pc, synth_note, quit_vars >>
    /\ UNCHANGED synth_frame

\* if tx.send(msg).is_err() { break; }
InputSend ==
    /\ input_pc = "send"
    /\ IF main_pc = "returned"
       THEN /\ input_pc' = "done"
            /\ UNCHANGED event_tx
       ELSE /\ event_tx' = Append(event_tx, input_event)
            /\ input_pc' = "check"
    /\ UNCHANGED << stdin_events, typed, input_event, main_pc, synth_note,
                    quit_read, quit_vars >>
    /\ UNCHANGED synth_frame

\* if *should_quit { break; }
InputCheck ==
    /\ input_pc = "check"
    /\ input_pc' = IF should_quit THEN "done" ELSE "read"
    /\ UNCHANGED << stdin_events, typed, input_event, event_tx, main_pc,
                    synth_note, quit_read, quit_vars >>
    /\ UNCHANGED synth_frame

\* if let Ok(event) = rx.try_recv() { match event { .. } }
MainPoll ==
    /\ main_pc = "poll"
    /\ event_tx # << >>
    /\ LET event == Head(event_tx)
       IN  /\ event_tx' = Tail(event_tx)
           /\ main_pc' = IF event.kind = "Quit" THEN "quit" ELSE "poll"
           /\ synth_note' = IF event.kind = "KeyDown" THEN event.key
                            ELSE IF event.kind = "KeyUp" THEN "none"
                            ELSE synth_note
    /\ UNCHANGED << stdin_events, typed, input_pc, input_event, quit_read,
                    quit_vars >>
    /\ UNCHANGED synth_frame

\* *should_quit.lock().unwrap() = true
MainSetQuit ==
    /\ main_pc = "quit"
    /\ should_quit' = TRUE
    /\ main_pc' = "join"
    /\ UNCHANGED << stdin_events, typed, input_pc, input_event, event_tx,
                    synth_note, quit_read, rendered, stop_mark >>
    /\ UNCHANGED synth_frame

\* let _ = input_thread.join(); .. Ok(())
MainJoin ==
    /\ main_pc = "join"
    /\ input_pc = "done"
    /\ main_pc' = "returned"
    /\ UNCHANGED << stdin_events, typed, input_pc, input_event, event_tx,
                    synth_note, quit_read, quit_vars >>
    /\ UNCHANGED synth_frame

\* a step of one of the two threads
SynthStep ==
    \/ InputRead
    \/ InputSend
    \/ InputCheck
    \/ MainPoll
    \/ MainSetQuit
    \/ MainJoin

SynthNext ==
    \/ \E key \in Keys : KeyPress(key)
    \/ InputRead
    \/ InputSend
    \/ InputCheck
    \/ MainPoll
    \/ MainSetQuit
    \/ MainJoin

SynthInit == Init /\ sample_rate = 1000

SynthSpec == SynthInit /\ [][SynthNext]_vars

(***************************************************************************)
(* C38: after the 'q' key event has been read, run_synthesizer sets the    *)
(* stop flag, its input thread exits and is joined and the function        *)
(* returns, without any further keyboard input, under every interleaving   *)
(* of the two threads: until the function has returned, one of the two     *)
(* threads can always take a step without a key being typed.               *)
(***************************************************************************)
C38_QuitNeedsNoFurtherKey ==
    (quit_read /\ main_pc # "returned") => ENABLED SynthStep

====
